---- MODULE Spec2Model ----
(***************************************************************************)
(* A model of the C++ quick reference page.                                *)
(*                                                                         *)
(* ContentLoader (cache, in-flight map, retry counters, retry with         *)
(* backoff, fallback document), driven by the browser's event loop: every  *)
(* action is one turn of the loop (a call from outside, a network          *)
(* completion, a timer). Specification Spec.                               *)
(*                                                                         *)
(* TooltipManager: findMatches on a text (SpecMatch), decorate on a        *)
(* document (SpecDecorate), and the popover driven by pointer, focus and   *)
(* timer events (SpecTooltip).                                             *)
(*                                                                         *)
(* utils.js: EventEmitter (SpecEmitter) and throttle (SpecThrottle).       *)
(* app.js: CPPGuideApp.switchTab and loadContent (SpecApp).                *)
(***************************************************************************)
EXTENDS Integers, Sequences, FiniteSets, TLC

\* ---------------------------------------------------------------- bounds
\* The clock advances in steps of TickMs milliseconds, at most MaxTicks times.
MaxTicks == 3
TickMs == 150000
\* Network requests one load can issue: in Spec clearCache is called on a
\* key with a pending load only while the load stays within this many
\* requests, and the count of a load's requests stops there.
MaxAttempts == 5
\* Length of the array preloadContent is called with.
MaxPreloadLen == 2

\* ------------------------------------------------- configuration (config.js)
CacheTimeout == 5 * 60 * 1000
RetryAttempts == 3
RetryDelay == 1000

\* The tabs of APP_CONFIG.tabs the model keeps (id, title).
ConfigTabs == { [id |-> "vector", title |-> "std::vector"],
                [id |-> "map", title |-> "std::map"] }

\* The tab ids loadContent is called with: a configured one and one that
\* APP_CONFIG.tabs does not list.
TabIds == {"vector", "nosuch"}

\* ------------------------------------------------------------------ text
\* A text is a sequence of characters; these are the ones the model uses.
Whitespace == {" ", "\n"}

\* String.prototype.trim: the text without leading and trailing white space.
RECURSIVE TrimStart(_)
TrimStart(s) ==
    IF s = <<>> THEN <<>>
    ELSE IF Head(s) \in Whitespace THEN TrimStart(Tail(s))
    ELSE s

RECURSIVE TrimEnd(_)
TrimEnd(s) ==
    IF s = <<>> THEN <<>>
    ELSE IF s[Len(s)] \in Whitespace THEN TrimEnd(SubSeq(s, 1, Len(s) - 1))
    ELSE s

Trim(s) == TrimEnd(TrimStart(s))

\* The bodies a response can carry: empty, blank, and a document.
Bodies == { <<>>, <<" ">>, <<" ", "a">> }

\* What one network attempt can end in: fetch() rejects, or a response with
\* a status and a body.
Responses ==
    { [rejected |-> TRUE, status |-> 0, body |-> <<>>] }
    \cup { [rejected |-> FALSE, status |-> 404, body |-> <<>>] }
    \cup { [rejected |-> FALSE, status |-> 200, body |-> b] : b \in Bodies }

\* response.ok
Ok(resp) == resp.status >= 200 /\ resp.status <= 299

\* Faulty variant of FetchResult: the body is tested without trim(), so a
\* blank body counts as content.
FetchResultNoTrim(resp) ==
    IF resp.rejected THEN [ok |-> FALSE, content |-> <<>>, message |-> "Failed to fetch"]
    ELSE IF ~Ok(resp) THEN [ok |-> FALSE, content |-> <<>>, message |-> "HTTP 404: Not Found"]
    ELSE IF resp.body = <<>>
         THEN [ok |-> FALSE, content |-> <<>>, message |-> "Empty content received"]
    ELSE [ok |-> TRUE, content |-> resp.body, message |-> ""]

\* The try block of _fetchContent on a completed attempt: the content it
\* returns, or the message of the error it throws.
FetchResult(resp) ==
    IF resp.rejected THEN [ok |-> FALSE, content |-> <<>>, message |-> "Failed to fetch"]
    ELSE IF ~Ok(resp) THEN [ok |-> FALSE, content |-> <<>>, message |-> "HTTP 404: Not Found"]
    ELSE IF Trim(resp.body) = <<>>
         THEN [ok |-> FALSE, content |-> <<>>, message |-> "Empty content received"]
    ELSE [ok |-> TRUE, content |-> resp.body, message |-> ""]

\* _getFallbackContent: the error document, naming the tab and the error.
TabTitle(tabId) ==
    IF \E t \in ConfigTabs : t.id = tabId
    THEN (CHOOSE t \in ConfigTabs : t.id = tabId).title
    ELSE tabId

FallbackContent(tabId, message) ==
    <<"\n", "<div class=content-error>", TabTitle(tabId), message, tabId, "\n">>

IsFallback(content) ==
    Len(content) = 6 /\ content[2] = "<div class=content-error>"

\* ----------------------------------------------------------------- state
VARIABLES
    cache,            \* this.cache: tabId -> [content, timestamp]
    loadingPromises,  \* this.loadingPromises: the tabIds with a pending promise
    retryCount,       \* this.retryCount: tabId -> retries used
    activation,       \* the _fetchContent activation of each tabId
    net,              \* network requests outstanding, per tabId
    joined,           \* whether a later caller was handed the pending promise
    attempts,         \* network requests issued by the current load, per tabId
    cleared,          \* whether clearCache hit tabId during its current load
    preload,          \* the preloadContent call in progress
    now,              \* Date.now()
    requestOrder,     \* history: the keys with a pending load, in the order requested
    out               \* what the last turn returned to callers and emitted

loaderVars == <<cache, loadingPromises, retryCount, activation, net, joined,
                attempts, cleared, preload, now, requestOrder, out>>

\* The state of the TooltipManager (tooltip-manager.js) and of the document
\* it decorates.
VARIABLES
    definitions,      \* this.definitions: the definitions, in their order
    text,             \* the text findMatches is called with
    matches,          \* what the call returned
    matchPc,          \* the call's position: "call" before it ran, "done" after
    dom,              \* the text nodes of the document, in document order
    activeTerm,       \* this.activeTerm: the marker the popover shows, or Null
    hideTimeout,      \* this.hideTimeout: the handle of the last hide timer, 0 for null
    timers,           \* the handles of the timers that are pending
    popover,          \* this.tooltipElement: aria-hidden, visibility, class, content
    pointer,          \* the element the pointer is over, or Null
    overPending,      \* a mouseout was dispatched and its mouseover is still to come
    focus,            \* the element that has the focus, or Null
    focusPending,     \* a focusout was dispatched and its focusin is still to come
    layout,           \* what getBoundingClientRect and window.innerWidth return
    tipOut            \* the last event and what its handler did

matcherVars == <<definitions, text, matches, matchPc>>

\* The popover's state, and the state of the pointer and the focus.
tipState == <<activeTerm, hideTimeout, timers, popover>>
inputVars == <<pointer, overPending, focus, focusPending>>
tooltipVars == <<tipState, inputVars, layout, tipOut>>

managerVars == <<matcherVars, dom, tooltipVars>>

\* The state of an EventEmitter (utils.js) and of its callers.
VARIABLES
    events,           \* this.events: event name -> the callbacks registered, in order
    unsubscribers,    \* the functions on() has returned: <<event, callback>>
    emitterOut        \* the last call of on, off or emit and the callbacks it invoked

emitterVars == <<events, unsubscribers, emitterOut>>

\* The state of a function made by throttle(func, limit) (utils.js, and the
\* same function in CPPGuideApp) and of the clock its timer runs on.
VARIABLES
    inThrottle,       \* the closure's inThrottle (undefined is FALSE)
    throttleTimer,    \* when the pending setTimeout is due, -1 with none pending
    clock,            \* the time in ms
    lastInvoked,      \* history: when func was invoked last, -1 before that
    throttleOut       \* the last call or timer and whether it invoked func

throttleVars == <<inThrottle, throttleTimer, clock, lastInvoked, throttleOut>>

utilsVars == <<emitterVars, throttleVars>>

\* The state of the CPPGuideApp (app.js) and of the page it drives.
VARIABLES
    currentTab,       \* this.currentTab, or Null
    contentCache,     \* this.contentCache: tabId -> content
    container,        \* what #content-container shows
    activeButton,     \* the tab button with the active classes, or Null
    switches,         \* the switchTab calls that await their fetch, in call order
    latest,           \* history: the last switchTab call and how it ended
    appOut            \* the last turn: the call that ran or resumed and its outcome

appVars == <<currentTab, contentCache, container, activeButton, switches,
             latest, appOut>>

vars == <<loaderVars, managerVars, utilsVars, appVars>>

Idle == [pc |-> "idle", retries |-> 0, due |-> 0]

\* A turn that returns nothing to a caller and emits no event.
Nothing == [op |-> "none"]

\* preloadContent: todo are the tabIds its map() has still to call
\* loadContent with, awaiting the tabIds whose promise has not settled yet.
NoPreload == [active |-> FALSE, todo |-> <<>>, awaiting |-> {}]

\* The event loop is between turns: no preloadContent is in the middle of its
\* map(), and none has all its promises settled with its continuation still
\* to run.
Quiet ==
    /\ preload.todo = <<>>
    /\ preload.active => preload.awaiting # {}

\* The arguments preloadContent is called with: arrays of tabIds, and a value
\* that is no array.
RECURSIVE SeqsUpTo(_)
SeqsUpTo(n) ==
    IF n = 0 THEN { <<>> }
    ELSE SeqsUpTo(n - 1)
         \cup { Append(q, k) : q \in { x \in SeqsUpTo(n - 1) : Len(x) = n - 1 },
                               k \in TabIds }

PreloadArgs ==
    { [isArray |-> TRUE, items |-> q] : q \in SeqsUpTo(MaxPreloadLen) }
    \cup { [isArray |-> FALSE, items |-> <<>>] }

\* clearCache's argument when it is called without one.
Undefined == "undefined"

\* Map.delete / Map.set on a function whose domain is the key set.
MapDelete(m, k) == [x \in DOMAIN m \ {k} |-> m[x]]
MapSet(m, k, v) == [x \in DOMAIN m \cup {k} |-> IF x = k THEN v ELSE m[x]]
EmptyMap == [x \in {} |-> 0]

\* this.retryCount.get(tabId) || 0
Retries(k) == IF k \in DOMAIN retryCount THEN retryCount[k] ELSE 0

\* new ContentLoader()
ContentLoaderInit ==
    /\ cache = EmptyMap
    /\ loadingPromises = {}
    /\ retryCount = EmptyMap
    /\ activation = [k \in TabIds |-> Idle]
    /\ net = [k \in TabIds |-> 0]
    /\ joined = [k \in TabIds |-> FALSE]
    /\ attempts = [k \in TabIds |-> 0]
    /\ cleared = [k \in TabIds |-> FALSE]
    /\ preload = NoPreload
    /\ now = 0
    /\ requestOrder = <<>>
    /\ out = Nothing

\* -------------------------------------------------- tooltip definitions
\* A trigger is a regular expression. The model keeps the forms the default
\* definitions are written in: a literal, optionally between two \b, and
\* optionally followed by the lookahead (?=\s*\().
Re(lit, wb, ahead) == [lit |-> lit, wb |-> wb, ahead |-> ahead]

\* /std::move/ and /\bmove\b(?=\s*\()/, the triggers of std-move, and
\* /\bmove\b/.
ReStdMove == Re(<<"s", "t", "d", ":", ":", "m", "o", "v", "e">>, FALSE, FALSE)
ReMoveCall == Re(<<"m", "o", "v", "e">>, TRUE, TRUE)
ReMove == Re(<<"m", "o", "v", "e">>, TRUE, FALSE)

\* The same three shapes over the two word characters s and m, for the
\* texts the model enumerates.
ReSM == Re(<<"s", ":", "m">>, FALSE, FALSE)
ReMCall == Re(<<"m">>, TRUE, TRUE)
ReS == Re(<<"s">>, TRUE, FALSE)

\* DEFAULT_TOOLTIP_DEFINITIONS, cut down to definitions of these shapes; as
\* in the source, the id decltype is used by two definitions, with the same
\* title and trigger and with different bodies.
DefaultDefinitions ==
    << [id |-> "decltype", title |-> "decltype", triggers |-> <<ReS>>,
        body |-> "Deduce the type of an expression at compile time"],
       [id |-> "std-move", title |-> "std::move", triggers |-> <<ReSM, ReMCall>>,
        body |-> "Cast an object to an rvalue"],
       [id |-> "decltype", title |-> "decltype", triggers |-> <<ReS>>,
        body |-> "Compile-time type deduction operator"] >>

\* null, for an element or a marker.
Null == "null"

\* The popover element as createTooltipElement creates it: aria-hidden,
\* style.visibility, the class `visible`, and the title and the body in its
\* content.
\* place is <<style.top, style.left>> in px, <<>> while they are not set.
NewPopover ==
    [ariaHidden |-> "true", visibility |-> "hidden", visible |-> FALSE,
     title |-> "", body |-> "", place |-> <<>>]

\* Lengths of the layout are in half pixels (getBoundingClientRect returns
\* fractions). A marker's rectangle on the page, the popover's size and the
\* viewport's width; scrollY is how far the page is scrolled.
Rect(top, left, width, height) ==
    [top |-> top, left |-> left, width |-> width, height |-> height]

PageLayout ==
    [scrollY |-> 0, innerWidth |-> 400,
     tooltipRect |-> [width |-> 160, height |-> 80],
     rect |-> [t1 |-> Rect(200, 40, 60, 20), t2 |-> Rect(260, 360, 31, 20)]]

\* No event has been handled yet.
NoEvent == [event |-> "none", target |-> Null, relatedTarget |-> Null,
            did |-> "none", cancelled |-> FALSE, was |-> Null]

\* The popover part of new TooltipManager(), with the pointer outside the
\* page and nothing focused.
PopoverInit ==
    /\ activeTerm = Null
    /\ hideTimeout = 0
    /\ timers = {}
    /\ popover = NewPopover
    /\ pointer = Null
    /\ overPending = FALSE
    /\ focus = Null
    /\ focusPending = FALSE
    /\ layout = PageLayout
    /\ tipOut = NoEvent

\* new TooltipManager(): the default definitions, nothing matched yet.
TooltipManagerInit ==
    /\ definitions = DefaultDefinitions
    /\ text = <<>>
    /\ matches = <<>>
    /\ matchPc = "done"
    /\ dom = <<>>
    /\ PopoverInit

\* new EventEmitter()
EventEmitterInit ==
    /\ events = EmptyMap
    /\ unsubscribers = {}
    /\ emitterOut = [op |-> "none"]

\* const throttled = throttle(func, limit)
ThrottleInit ==
    /\ inThrottle = FALSE
    /\ throttleTimer = -1
    /\ clock = 0
    /\ lastInvoked = -1
    /\ throttleOut = [op |-> "none", invoked |-> FALSE, args |-> ""]

\* this.tabsConfig, cut down to two tabs, and a tab id it does not list.
TabsConfig == {"string", "vector"}
FirstTab == "string"
AppTabIds == TabsConfig \cup {"nosuch"}

\* What #content-container shows: the loading indicator, a document, the
\* error view, or nothing.
LoadingView == [view |-> "loading", content |-> <<>>]
ErrorView == [view |-> "error", content |-> <<>>]
EmptyView == [view |-> "empty", content |-> <<>>]
ContentView(content) == [view |-> "content", content |-> content]

\* new CPPGuideApp(): the constructor runs init() up to its await, that is
\* switchTab of the first tab up to the fetch of its content.
CPPGuideAppInit ==
    /\ currentTab = Null
    /\ contentCache = EmptyMap
    /\ container = LoadingView
    /\ activeButton = FirstTab
    /\ switches = << FirstTab >>
    /\ latest = [tabId |-> FirstTab, state |-> "pending"]
    /\ appOut = [op |-> "switchTab", tabId |-> FirstTab, result |-> "pending",
                 threw |-> FALSE, fetch |-> TRUE]

\* The utilities of utils.js before their first use.
UtilsInit ==
    /\ EventEmitterInit
    /\ ThrottleInit

\* The page after its scripts have run.
Init ==
    /\ ContentLoaderInit
    /\ UtilsInit
    /\ CPPGuideAppInit
    /\ TooltipManagerInit

\* Faulty variant of Fresh: the comparison inverted.
FreshInverted(k) ==
    /\ k \in DOMAIN cache
    /\ now - cache[k].timestamp > CacheTimeout

\* The cache check of loadContent: an entry younger than the timeout.
Fresh(k) ==
    /\ k \in DOMAIN cache
    /\ now - cache[k].timestamp < CacheTimeout

\* Faulty variant of loadContent: the in-flight check is missing, so every
\* call without a cache hit starts a fetch.
loadContentNoCoalesce(tabId, useCache) ==
    IF useCache /\ Fresh(tabId)
    THEN /\ out' = [op |-> "return", tabId |-> tabId,
                    returned |-> cache[tabId].content]
         /\ UNCHANGED <<cache, loadingPromises, retryCount, activation, net,
                        joined, attempts, cleared>>
    ELSE /\ activation' = [activation EXCEPT
                 ![tabId] = [pc |-> "fetch", retries |-> Retries(tabId), due |-> 0]]
         /\ net' = [net EXCEPT ![tabId] = @ + 1]
         /\ loadingPromises' = loadingPromises \cup {tabId}
         /\ attempts' = [attempts EXCEPT ![tabId] = 1]
         /\ cleared' = [cleared EXCEPT ![tabId] = FALSE]
         /\ out' = Nothing
         /\ UNCHANGED <<cache, retryCount, joined>>

\* Faulty variant of loadContent: a call served from the cache emits
\* contentLoaded too.
loadContentEmitOnHit(tabId, useCache) ==
    IF useCache /\ Fresh(tabId)
    THEN /\ out' = [op |-> "return", tabId |-> tabId,
                    returned |-> cache[tabId].content,
                    events |-> << [event |-> "contentLoaded", tabId |-> tabId,
                                   content |-> cache[tabId].content] >>]
         /\ UNCHANGED <<cache, loadingPromises, retryCount, activation, net,
                        joined, attempts, cleared>>
    ELSE IF tabId \in loadingPromises
    THEN /\ joined' = [joined EXCEPT ![tabId] = TRUE]
         /\ out' = Nothing
         /\ UNCHANGED <<cache, loadingPromises, retryCount, activation, net,
                        attempts, cleared>>
    ELSE /\ activation' = [activation EXCEPT
                 ![tabId] = [pc |-> "fetch", retries |-> Retries(tabId), due |-> 0]]
         /\ net' = [net EXCEPT ![tabId] = @ + 1]
         /\ loadingPromises' = loadingPromises \cup {tabId}
         /\ attempts' = [attempts EXCEPT ![tabId] = 1]
         /\ cleared' = [cleared EXCEPT ![tabId] = FALSE]
         /\ out' = Nothing
         /\ UNCHANGED <<cache, retryCount, joined>>

\* Faulty variant of loadContent: the promise of a started fetch is not
\* stored in loadingPromises.
loadContentNoStore(tabId, useCache) ==
    IF useCache /\ Fresh(tabId)
    THEN /\ out' = [op |-> "return", tabId |-> tabId,
                    returned |-> cache[tabId].content]
         /\ UNCHANGED <<cache, loadingPromises, retryCount, activation, net,
                        joined, attempts, cleared>>
    ELSE IF tabId \in loadingPromises
    THEN /\ joined' = [joined EXCEPT ![tabId] = TRUE]
         /\ out' = Nothing
         /\ UNCHANGED <<cache, loadingPromises, retryCount, activation, net,
                        attempts, cleared>>
    ELSE /\ activation' = [activation EXCEPT
                 ![tabId] = [pc |-> "fetch", retries |-> Retries(tabId), due |-> 0]]
         /\ net' = [net EXCEPT ![tabId] = @ + 1]
         /\ attempts' = [attempts EXCEPT ![tabId] = 1]
         /\ cleared' = [cleared EXCEPT ![tabId] = FALSE]
         /\ out' = Nothing
         /\ UNCHANGED <<cache, loadingPromises, retryCount, joined>>

\* loadContent(tabId, useCache), up to its first await: the cache check, the
\* in-flight check, and the start of _fetchContent (its first network
\* request is issued before loadContent stores the promise).
loadContent(tabId, useCache) ==
    IF useCache /\ Fresh(tabId)
    THEN /\ out' = [op |-> "return", tabId |-> tabId,
                    returned |-> cache[tabId].content]
         /\ UNCHANGED <<cache, loadingPromises, retryCount, activation, net,
                        joined, attempts, cleared>>
    ELSE IF tabId \in loadingPromises
    THEN /\ joined' = [joined EXCEPT ![tabId] = TRUE]
         /\ out' = Nothing
         /\ UNCHANGED <<cache, loadingPromises, retryCount, activation, net,
                        attempts, cleared>>
    ELSE /\ activation' = [activation EXCEPT
                 ![tabId] = [pc |-> "fetch", retries |-> Retries(tabId), due |-> 0]]
         /\ net' = [net EXCEPT ![tabId] = @ + 1]
         /\ loadingPromises' = loadingPromises \cup {tabId}
         /\ attempts' = [attempts EXCEPT ![tabId] = 1]
         /\ cleared' = [cleared EXCEPT ![tabId] = FALSE]
         /\ out' = Nothing
         /\ UNCHANGED <<cache, retryCount, joined>>

\* A call of loadContent from outside.
LoadContentCall(tabId, useCache) ==
    /\ Quiet
    /\ loadContent(tabId, useCache)
    /\ UNCHANGED <<preload, now>>

\* Faulty variant of loadContentResume: the retry counter is not removed.
loadContentResumeKeepRetries(tabId, content) ==
    /\ cache' = MapSet(cache, tabId, [content |-> content, timestamp |-> now])
    /\ retryCount' = retryCount
    /\ loadingPromises' = loadingPromises \ {tabId}
    /\ activation' = [activation EXCEPT ![tabId] = Idle]
    /\ joined' = [joined EXCEPT ![tabId] = FALSE]
    /\ preload' = [preload EXCEPT !.awaiting = @ \ {tabId}]
    /\ out' = [op |-> "settle", tabId |-> tabId, status |-> "fulfilled",
               returned |-> content,
               promise |-> content,
               joined |-> joined[tabId],
               attempts |-> attempts[tabId],
               cleared |-> cleared[tabId],
               events |-> << [event |-> "contentLoaded", tabId |-> tabId,
                              content |-> content] >>]
    /\ attempts' = [attempts EXCEPT ![tabId] = 0]
    /\ cleared' = [cleared EXCEPT ![tabId] = FALSE]
    /\ UNCHANGED now

\* Faulty variant of loadContentResume: the starting call caches and returns
\* the trimmed content, while the promise holds what _fetchContent returned.
loadContentResumeTrimmed(tabId, content) ==
    /\ cache' = MapSet(cache, tabId, [content |-> Trim(content), timestamp |-> now])
    /\ retryCount' = MapDelete(retryCount, tabId)
    /\ loadingPromises' = loadingPromises \ {tabId}
    /\ activation' = [activation EXCEPT ![tabId] = Idle]
    /\ joined' = [joined EXCEPT ![tabId] = FALSE]
    /\ preload' = [preload EXCEPT !.awaiting = @ \ {tabId}]
    /\ out' = [op |-> "settle", tabId |-> tabId, status |-> "fulfilled",
               returned |-> Trim(content),
               promise |-> content,
               joined |-> joined[tabId],
               attempts |-> attempts[tabId],
               cleared |-> cleared[tabId],
               events |-> << [event |-> "contentLoaded", tabId |-> tabId,
                              content |-> Trim(content)] >>]
    /\ attempts' = [attempts EXCEPT ![tabId] = 0]
    /\ cleared' = [cleared EXCEPT ![tabId] = FALSE]
    /\ UNCHANGED now

\* Faulty variant of loadContentResume: no event is emitted.
loadContentResumeSilent(tabId, content) ==
    /\ cache' = MapSet(cache, tabId, [content |-> content, timestamp |-> now])
    /\ retryCount' = MapDelete(retryCount, tabId)
    /\ loadingPromises' = loadingPromises \ {tabId}
    /\ activation' = [activation EXCEPT ![tabId] = Idle]
    /\ joined' = [joined EXCEPT ![tabId] = FALSE]
    /\ preload' = [preload EXCEPT !.awaiting = @ \ {tabId}]
    /\ out' = [op |-> "settle", tabId |-> tabId, status |-> "fulfilled",
               returned |-> content,
               promise |-> content,
               joined |-> joined[tabId],
               attempts |-> attempts[tabId],
               cleared |-> cleared[tabId],
               events |-> << >>]
    /\ attempts' = [attempts EXCEPT ![tabId] = 0]
    /\ cleared' = [cleared EXCEPT ![tabId] = FALSE]
    /\ UNCHANGED now

\* Faulty variant of loadContentResume: the fallback document is reported
\* with contentError instead of contentLoaded.
loadContentResumeErrorEvent(tabId, content) ==
    /\ cache' = MapSet(cache, tabId, [content |-> content, timestamp |-> now])
    /\ retryCount' = MapDelete(retryCount, tabId)
    /\ loadingPromises' = loadingPromises \ {tabId}
    /\ activation' = [activation EXCEPT ![tabId] = Idle]
    /\ joined' = [joined EXCEPT ![tabId] = FALSE]
    /\ preload' = [preload EXCEPT !.awaiting = @ \ {tabId}]
    /\ out' = [op |-> "settle", tabId |-> tabId, status |-> "fulfilled",
               returned |-> content,
               promise |-> content,
               joined |-> joined[tabId],
               attempts |-> attempts[tabId],
               cleared |-> cleared[tabId],
               events |-> << [event |-> IF IsFallback(content) THEN "contentError"
                                        ELSE "contentLoaded",
                              tabId |-> tabId,
                              content |-> content] >>]
    /\ attempts' = [attempts EXCEPT ![tabId] = 0]
    /\ cleared' = [cleared EXCEPT ![tabId] = FALSE]
    /\ UNCHANGED now

\* loadContent after `await loadPromise` fulfils with content: cache it,
\* drop the retry counter, emit contentLoaded, return it, and (finally) drop
\* the in-flight entry. `returned` is what the call that started the fetch
\* returns, `promise` what the callers that were handed the promise get.
loadContentResume(tabId, content) ==
    /\ cache' = MapSet(cache, tabId, [content |-> content, timestamp |-> now])
    /\ retryCount' = MapDelete(retryCount, tabId)
    /\ loadingPromises' = loadingPromises \ {tabId}
    /\ activation' = [activation EXCEPT ![tabId] = Idle]
    /\ joined' = [joined EXCEPT ![tabId] = FALSE]
    /\ preload' = [preload EXCEPT !.awaiting = @ \ {tabId}]
    /\ out' = [op |-> "settle", tabId |-> tabId, status |-> "fulfilled",
               returned |-> content,
               promise |-> content,
               joined |-> joined[tabId],
               attempts |-> attempts[tabId],
               cleared |-> cleared[tabId],
               events |-> << [event |-> "contentLoaded", tabId |-> tabId,
                              content |-> content] >>]
    /\ attempts' = [attempts EXCEPT ![tabId] = 0]
    /\ cleared' = [cleared EXCEPT ![tabId] = FALSE]
    /\ UNCHANGED now

\* The catch block of _fetchContent with retries left: count the retry and
\* start the backoff timer.
scheduleRetry(tabId, message) ==
    LET retries == activation[tabId].retries IN
    /\ retryCount' = MapSet(retryCount, tabId, retries + 1)
    /\ activation' = [activation EXCEPT
             ![tabId] = [pc |-> "wait", retries |-> retries,
                         due |-> now + RetryDelay * (retries + 1)]]
    /\ out' = Nothing
    /\ UNCHANGED <<cache, loadingPromises, joined, attempts, cleared, preload, now>>

\* loadContent when `await loadPromise` rejects with an error: the catch
\* block emits contentError and rethrows, so the call and the callers that
\* were handed the promise get the rejection; finally drops the in-flight
\* entry. Nothing is cached and the retry counter stays.
loadContentCatch(tabId, message) ==
    /\ loadingPromises' = loadingPromises \ {tabId}
    /\ activation' = [activation EXCEPT ![tabId] = Idle]
    /\ joined' = [joined EXCEPT ![tabId] = FALSE]
    /\ preload' = [preload EXCEPT !.awaiting = @ \ {tabId}]
    /\ out' = [op |-> "settle", tabId |-> tabId, status |-> "rejected",
               returned |-> <<message>>,
               promise |-> <<message>>,
               joined |-> joined[tabId],
               attempts |-> attempts[tabId],
               cleared |-> cleared[tabId],
               events |-> << [event |-> "contentError", tabId |-> tabId,
                              error |-> message] >>]
    /\ attempts' = [attempts EXCEPT ![tabId] = 0]
    /\ cleared' = [cleared EXCEPT ![tabId] = FALSE]
    /\ UNCHANGED <<cache, retryCount, now>>

\* Faulty variant of fetchContent: with the retries exhausted the error is
\* thrown to loadContent instead of being turned into the fallback document.
fetchContentThrow(tabId, resp) ==
    LET r == FetchResult(resp) IN
    IF r.ok THEN loadContentResume(tabId, r.content)
    ELSE IF activation[tabId].retries < RetryAttempts
         THEN scheduleRetry(tabId, r.message)
    ELSE loadContentCatch(tabId, r.message)

\* Faulty variant of fetchContent: a key that APP_CONFIG.tabs does not list
\* is a hard failure, thrown to loadContent without a retry.
fetchContentNotFound(tabId, resp) ==
    LET r == FetchResult(resp) IN
    IF r.ok THEN loadContentResume(tabId, r.content)
    ELSE IF ~(\E t \in ConfigTabs : t.id = tabId)
         THEN loadContentCatch(tabId, r.message)
    ELSE IF activation[tabId].retries < RetryAttempts
         THEN scheduleRetry(tabId, r.message)
    ELSE loadContentResume(tabId, FallbackContent(tabId, r.message))

\* Faulty variant of fetchContent: the retry test is off by one, one retry
\* too few.
fetchContentOffByOne(tabId, resp) ==
    LET r == FetchResult(resp) IN
    IF r.ok THEN loadContentResume(tabId, r.content)
    ELSE IF activation[tabId].retries + 1 < RetryAttempts
         THEN scheduleRetry(tabId, r.message)
    ELSE loadContentResume(tabId, FallbackContent(tabId, r.message))

\* Faulty variant of fetchContent: the retry test lets one retry more
\* through.
fetchContentOneMore(tabId, resp) ==
    LET r == FetchResult(resp) IN
    IF r.ok THEN loadContentResume(tabId, r.content)
    ELSE IF activation[tabId].retries <= RetryAttempts
         THEN scheduleRetry(tabId, r.message)
    ELSE loadContentResume(tabId, FallbackContent(tabId, r.message))

\* Faulty variant of fetchContent: the empty-content error escapes the retry
\* and goes straight to the fallback.
fetchContentEmptyNoRetry(tabId, resp) ==
    LET r == FetchResult(resp) IN
    IF r.ok THEN loadContentResume(tabId, r.content)
    ELSE IF /\ activation[tabId].retries < RetryAttempts
            /\ r.message # "Empty content received"
         THEN scheduleRetry(tabId, r.message)
    ELSE loadContentResume(tabId, FallbackContent(tabId, r.message))

\* _fetchContent once its network request has completed with resp: return
\* the content, or catch the error and retry or fall back. What it returns
\* fulfils the promise loadContent awaits.
fetchContent(tabId, resp) ==
    LET r == FetchResult(resp) IN
    IF r.ok THEN loadContentResume(tabId, r.content)
    ELSE IF activation[tabId].retries < RetryAttempts
         THEN scheduleRetry(tabId, r.message)
    ELSE loadContentResume(tabId, FallbackContent(tabId, r.message))

\* A network request of tabId completes.
NetRespond(tabId, resp) ==
    /\ Quiet
    /\ activation[tabId].pc = "fetch"
    /\ net[tabId] > 0
    /\ net' = [net EXCEPT ![tabId] = @ - 1]
    /\ fetchContent(tabId, resp)

\* The backoff timer fires: _fetchContent(tabId) is entered again, reads the
\* retry counter and issues the next network request.
RetryTimer(tabId) ==
    /\ Quiet
    /\ activation[tabId].pc = "wait"
    /\ now >= activation[tabId].due
    /\ activation' = [activation EXCEPT
             ![tabId] = [pc |-> "fetch", retries |-> Retries(tabId), due |-> 0]]
    /\ net' = [net EXCEPT ![tabId] = @ + 1]
    /\ attempts' = [attempts EXCEPT ![tabId] = IF @ < MaxAttempts THEN @ + 1 ELSE @]
    /\ out' = Nothing
    /\ UNCHANGED <<cache, loadingPromises, retryCount, joined, cleared, preload, now>>

\* Faulty variant of clearCache: it clears everything, with a tabId too.
clearCacheEverything(tabId) ==
    LET hit == loadingPromises IN
    /\ Quiet
    /\ cache' = EmptyMap
    /\ retryCount' = EmptyMap
    /\ cleared' = [k \in TabIds |-> cleared[k] \/ k \in hit]
    /\ out' = [op |-> "clearCache", tabId |-> tabId]
    /\ UNCHANGED <<loadingPromises, activation, net, joined, attempts, preload, now>>

\* clearCache(tabId); without a tabId it clears everything.
clearCache(tabId) ==
    LET hit == IF tabId = Undefined THEN loadingPromises
               ELSE loadingPromises \cap {tabId} IN
    /\ Quiet
    /\ IF tabId # Undefined
       THEN /\ cache' = MapDelete(cache, tabId)
            /\ retryCount' = MapDelete(retryCount, tabId)
       ELSE /\ cache' = EmptyMap
            /\ retryCount' = EmptyMap
    /\ cleared' = [k \in TabIds |-> cleared[k] \/ k \in hit]
    /\ out' = [op |-> "clearCache", tabId |-> tabId]
    /\ UNCHANGED <<loadingPromises, activation, net, joined, attempts, preload, now>>

\* A call of clearCache from outside, made on a key with a pending load
\* only while that load stays within MaxAttempts requests.
ClearCacheCall(tabId) ==
    /\ \A k \in loadingPromises :
          (tabId \in {k, Undefined}) => attempts[k] + RetryAttempts + 1 <= MaxAttempts
    /\ clearCache(tabId)

\* preloadContent(tabIds), up to the start of its map().
preloadContent(arg) ==
    /\ Quiet
    /\ ~preload.active
    /\ preload' = IF arg.isArray
                  THEN [active |-> TRUE, todo |-> arg.items, awaiting |-> {}]
                  ELSE preload
    /\ out' = Nothing
    /\ UNCHANGED <<cache, loadingPromises, retryCount, activation, net, joined,
                   attempts, cleared, now>>

\* Faulty variant of PreloadMap: the promise of the call is not awaited.
PreloadMapNoAwait ==
    /\ preload.todo # <<>>
    /\ loadContent(Head(preload.todo), TRUE)
    /\ preload' = [preload EXCEPT !.todo = Tail(@)]
    /\ UNCHANGED now

\* One iteration of preloadContent's map(): loadContent(tabId).
PreloadMap ==
    /\ preload.todo # <<>>
    /\ loadContent(Head(preload.todo), TRUE)
    /\ preload' = [preload EXCEPT
             !.todo = Tail(@),
             !.awaiting = IF Fresh(Head(preload.todo)) THEN @
                          ELSE @ \cup {Head(preload.todo)}]
    /\ UNCHANGED now

\* preloadContent after `await Promise.allSettled(promises)`: every promise
\* has settled.
PreloadSettled ==
    /\ preload.active
    /\ preload.todo = <<>>
    /\ preload.awaiting = {}
    /\ preload' = NoPreload
    /\ out' = [op |-> "preloadSettled",
               events |-> << [event |-> "preloadComplete"] >>]
    /\ UNCHANGED <<cache, loadingPromises, retryCount, activation, net, joined,
                   attempts, cleared, now>>

\* Time passes.
Tick ==
    /\ Quiet
    /\ now < MaxTicks * TickMs
    /\ now' = now + TickMs
    /\ out' = Nothing
    /\ UNCHANGED <<cache, loadingPromises, retryCount, activation, net, joined,
                   attempts, cleared, preload>>

\* The turns of the content loader; the tooltip manager is left alone.
Next ==
    \/ \E tabId \in TabIds, useCache \in BOOLEAN :
          LoadContentCall(tabId, useCache) /\ UNCHANGED <<managerVars, utilsVars, appVars, requestOrder>>
    \/ \E tabId \in TabIds, resp \in Responses :
          NetRespond(tabId, resp) /\ UNCHANGED <<managerVars, utilsVars, appVars, requestOrder>>
    \/ \E tabId \in TabIds :
          RetryTimer(tabId) /\ UNCHANGED <<managerVars, utilsVars, appVars, requestOrder>>
    \/ \E tabId \in TabIds \cup {Undefined} :
          ClearCacheCall(tabId) /\ UNCHANGED <<managerVars, utilsVars, appVars, requestOrder>>
    \/ \E arg \in PreloadArgs :
          preloadContent(arg) /\ UNCHANGED <<managerVars, utilsVars, appVars, requestOrder>>
    \/ PreloadMap /\ UNCHANGED <<managerVars, utilsVars, appVars, requestOrder>>
    \/ PreloadSettled /\ UNCHANGED <<managerVars, utilsVars, appVars, requestOrder>>
    \/ Tick /\ UNCHANGED <<managerVars, utilsVars, appVars, requestOrder>>

Spec == Init /\ [][Next]_vars

\* The loader with the history of its loads: the keys whose load is pending
\* or has settled in the last turn, in the order in which the loads were
\* requested.
Requested ==
    requestOrder' =
        LET kept == SelectSeq(requestOrder, LAMBDA k : k \in loadingPromises)
            new == loadingPromises' \ loadingPromises
        IN  IF new = {} THEN kept ELSE Append(kept, CHOOSE k \in new : TRUE)

NextOrder ==
    \/ \E tabId \in TabIds, useCache \in BOOLEAN :
          LoadContentCall(tabId, useCache) /\ Requested /\ UNCHANGED <<managerVars, utilsVars, appVars>>
    \/ \E tabId \in TabIds, resp \in Responses :
          NetRespond(tabId, resp) /\ Requested /\ UNCHANGED <<managerVars, utilsVars, appVars>>
    \/ \E tabId \in TabIds :
          RetryTimer(tabId) /\ Requested /\ UNCHANGED <<managerVars, utilsVars, appVars>>
    \/ \E tabId \in TabIds \cup {Undefined} :
          ClearCacheCall(tabId) /\ Requested /\ UNCHANGED <<managerVars, utilsVars, appVars>>
    \/ Tick /\ Requested /\ UNCHANGED <<managerVars, utilsVars, appVars>>

SpecOrder == Init /\ [][NextOrder]_vars

\* The loader under fair scheduling, with no bound on the time or on the
\* calls: every network request completes, every timer that is due fires,
\* and time passes. The time is kept relative: now stays, and the
\* timestamps and the timers' due times move back instead, down to the
\* values from which on their age makes no difference.
MaxOf(a, b) == IF a >= b THEN a ELSE b

Elapse ==
    /\ Quiet
    /\ cache' = [k \in DOMAIN cache |->
                   [cache[k] EXCEPT
                      !.timestamp = MaxOf(@ - TickMs, now - CacheTimeout)]]
    /\ activation' = [k \in TabIds |->
                        [activation[k] EXCEPT !.due = MaxOf(@ - TickMs, 0)]]
    /\ out' = Nothing
    /\ UNCHANGED <<loadingPromises, retryCount, net, joined, attempts, cleared,
                   preload, now>>

LoadStep ==
    \E tabId \in TabIds, useCache \in BOOLEAN :
       LoadContentCall(tabId, useCache) /\ UNCHANGED <<managerVars, utilsVars, appVars, requestOrder>>

NetStep(tabId) ==
    \E resp \in Responses :
       NetRespond(tabId, resp) /\ UNCHANGED <<managerVars, utilsVars, appVars, requestOrder>>

TimerStep(tabId) ==
    RetryTimer(tabId) /\ UNCHANGED <<managerVars, utilsVars, appVars, requestOrder>>

ClearStep ==
    \E tabId \in TabIds \cup {Undefined} :
       clearCache(tabId) /\ UNCHANGED <<managerVars, utilsVars, appVars, requestOrder>>

ElapseStep == Elapse /\ UNCHANGED <<managerVars, utilsVars, appVars, requestOrder>>

NextLive ==
    \/ LoadStep
    \/ \E tabId \in TabIds : NetStep(tabId)
    \/ \E tabId \in TabIds : TimerStep(tabId)
    \/ ClearStep
    \/ ElapseStep

SpecLive ==
    /\ Init
    /\ [][NextLive]_vars
    /\ \A tabId \in TabIds : WF_vars(NetStep(tabId))
    /\ \A tabId \in TabIds : WF_vars(TimerStep(tabId))
    /\ WF_vars(ElapseStep)

\* ------------------------------------------- TooltipManager: findMatches
\* Longest text findMatches is called with, over the characters of Chars.
MaxTextLen == 4

\* The characters of the enumerated texts: two word characters, a
\* punctuation character, a parenthesis and a blank.
Chars == {"s", "m", ":", "(", " "}

\* \w, as far as the model's texts go.
WordChars == {"s", "t", "d", "m", "o", "v", "e"}

RECURSIVE TextsUpTo(_)
TextsUpTo(n) ==
    IF n = 0 THEN { <<>> }
    ELSE TextsUpTo(n - 1)
         \cup { Append(t, c) : t \in { x \in TextsUpTo(n - 1) : Len(x) = n - 1 },
                               c \in Chars }

\* Texts spelled out in full: std::move, std::move(, move (, move.
SampleTexts ==
    { <<"s", "t", "d", ":", ":", "m", "o", "v", "e">>,
      <<"s", "t", "d", ":", ":", "m", "o", "v", "e", "(">>,
      <<"m", "o", "v", "e", " ", "(">>,
      <<"m", "o", "v", "e">> }

Texts == TextsUpTo(MaxTextLen) \cup SampleTexts

\* The definitions a TooltipManager is constructed with: the defaults; the
\* triggers move and std::move (the one that starts later and is shorter
\* comes first); the same over s and m; triggers that share a start and
\* overlap in a chain; none.
DefinitionLists ==
    { DefaultDefinitions,
      << [id |-> "move", title |-> "move", body |-> "",
          triggers |-> <<ReMove>>],
         [id |-> "std-move", title |-> "std::move", body |-> "",
          triggers |-> <<ReStdMove, ReMoveCall>>] >>,
      << [id |-> "m", title |-> "m", body |-> "",
          triggers |-> <<Re(<<"m">>, TRUE, FALSE)>>],
         [id |-> "s", title |-> "s", body |-> "",
          triggers |-> <<Re(<<"s">>, FALSE, FALSE)>>],
         [id |-> "s:", title |-> "s:", body |-> "",
          triggers |-> <<Re(<<"s", ":">>, FALSE, FALSE), ReSM>>],
         [id |-> ":m", title |-> ":m", body |-> "",
          triggers |-> <<Re(<<":", "m">>, FALSE, FALSE),
                         Re(<<"m", "(">>, FALSE, FALSE)>>] >>,
      << >> }

\* \b at offset i of t: a word character on exactly one side.
Boundary(t, i) ==
    (i >= 1 /\ t[i] \in WordChars) # (i < Len(t) /\ t[i + 1] \in WordChars)

\* (?=\s*\() at offset i of t.
RECURSIVE Ahead(_, _)
Ahead(t, i) ==
    /\ i < Len(t)
    /\ \/ t[i + 1] = "("
       \/ t[i + 1] \in Whitespace /\ Ahead(t, i + 1)

\* The pattern matches t at offset i.
MatchesAt(pattern, t, i) ==
    LET n == Len(pattern.lit) IN
    /\ i + n <= Len(t)
    /\ SubSeq(t, i + 1, i + n) = pattern.lit
    /\ pattern.wb => (Boundary(t, i) /\ Boundary(t, i + n))
    /\ pattern.ahead => Ahead(t, i + n)

Min(S) == CHOOSE x \in S : \A y \in S : x <= y

\* The loop `while ((result = pattern.exec(text)) !== null)` of a global
\* pattern from lastIndex on: the leftmost match at or after lastIndex is
\* pushed, and the search goes on from its end.
RECURSIVE exec(_, _, _, _)
exec(definition, pattern, t, lastIndex) ==
    LET found == { i \in lastIndex..Len(t) : MatchesAt(pattern, t, i) } IN
    IF found = {} THEN <<>>
    ELSE LET start == Min(found)
             len == Len(pattern.lit)
         IN  << [start |-> start, end |-> start + len, length |-> len,
                 text |-> SubSeq(t, start + 1, start + len),
                 definitionId |-> definition.id] >>
             \o exec(definition, pattern, t, start + len)

\* definition.triggers.forEach(...)
RECURSIVE execTriggers(_, _, _)
execTriggers(definition, triggers, t) ==
    IF triggers = <<>> THEN <<>>
    ELSE exec(definition, Head(triggers), t, 0)
         \o execTriggers(definition, Tail(triggers), t)

\* this.definitions.forEach(...): the matches of every trigger of every
\* definition, in the order they are pushed.
RECURSIVE rawMatches(_, _)
rawMatches(defs, t) ==
    IF defs = <<>> THEN <<>>
    ELSE execTriggers(Head(defs), Head(defs).triggers, t)
         \o rawMatches(Tail(defs), t)

\* Faulty variant of compare: the tie on equal starts is not broken by
\* length.
compareStartOnly(a, b) == a.start - b.start

\* The comparator of matches.sort: by start, and on equal starts the longer
\* match first.
compare(a, b) ==
    IF a.start = b.start THEN b.length - a.length ELSE a.start - b.start

\* Array.prototype.sort with compare: a stable sort.
RECURSIVE sort(_)
sort(ms) ==
    IF ms = <<>> THEN <<>>
    ELSE LET front == sort(SubSeq(ms, 1, Len(ms) - 1))
             m == ms[Len(ms)]
             k == Cardinality({ j \in 1..Len(front) : compare(front[j], m) <= 0 })
         IN  SubSeq(front, 1, k) \o <<m>> \o SubSeq(front, k + 1, Len(front))

\* Faulty variant of filterMatches: every match is kept.
RECURSIVE filterMatchesKeepAll(_, _)
filterMatchesKeepAll(ms, currentEnd) ==
    IF ms = <<>> THEN <<>>
    ELSE <<Head(ms)>> \o filterMatchesKeepAll(Tail(ms), Head(ms).end)

\* Faulty variant of filterMatches: currentEnd is set to the start of the
\* match that was kept.
RECURSIVE filterMatchesFromStart(_, _)
filterMatchesFromStart(ms, currentEnd) ==
    IF ms = <<>> THEN <<>>
    ELSE IF Head(ms).start >= currentEnd
         THEN <<Head(ms)>> \o filterMatchesFromStart(Tail(ms), Head(ms).start)
    ELSE filterMatchesFromStart(Tail(ms), currentEnd)

\* The second forEach of findMatches: a match is kept when it starts at or
\* after the end of the match kept last.
RECURSIVE filterMatches(_, _)
filterMatches(ms, currentEnd) ==
    IF ms = <<>> THEN <<>>
    ELSE IF Head(ms).start >= currentEnd
         THEN <<Head(ms)>> \o filterMatches(Tail(ms), Head(ms).end)
    ELSE filterMatches(Tail(ms), currentEnd)

\* findMatches(text) of a manager with the definitions defs.
findMatches(defs, t) ==
    LET raw == rawMatches(defs, t) IN
    IF raw = <<>> THEN raw
    ELSE filterMatches(sort(raw), -1)

\* A manager constructed with one of the definition lists, about to be
\* called with findMatches(text).
InitMatch ==
    /\ ContentLoaderInit
    /\ UtilsInit
    /\ CPPGuideAppInit
    /\ definitions \in DefinitionLists
    /\ text \in Texts
    /\ matches = <<>>
    /\ matchPc = "call"
    /\ dom = <<>>
    /\ PopoverInit

\* The call findMatches(text) runs.
FindMatchesCall ==
    /\ matchPc = "call"
    /\ matches' = findMatches(definitions, text)
    /\ matchPc' = "done"
    /\ UNCHANGED <<definitions, text, dom>>

NextMatch == FindMatchesCall /\ UNCHANGED <<loaderVars, utilsVars, appVars, tooltipVars>>

SpecMatch == InitMatch /\ [][NextMatch]_vars

\* ---------------------------------------------- TooltipManager: decorate
\* The document is kept as its text nodes in document order, each with the
\* elements above it (path, outermost first): what closest() and parentNode
\* see. MaxDomChars bounds the characters of a document, MaxNodes its text
\* nodes.
MaxDomChars == 3
MaxNodes == 2

El(tag, class) == [tag |-> tag, class |-> class, tooltipId |-> ""]

\* The element createTermNode creates: <span class="tooltip-term"
\* data-tooltip-id=id>.
TermElement(id) == [tag |-> "SPAN", class |-> "tooltip-term", tooltipId |-> id]

\* The element createTooltipElement creates.
PopoverElement == El("DIV", "tooltip-popover")

TextNode(t, path) == [text |-> t, path |-> path]

\* Where the text nodes of a document are before its first decoration: in
\* the content, in a script, in the popover, in an element inside a marker
\* that is there already. (Text directly inside a marker is what decorate
\* itself produces.)
Paths ==
    { << El("DIV", "") >>,
      << El("DIV", ""), El("SCRIPT", "") >>,
      << PopoverElement >>,
      << El("DIV", ""), TermElement("std-forward"), El("B", "") >> }

\* The characters of the documents' text nodes.
DomChars == {"s", "m", ":", " "}

\* The texts of exactly n characters.
RECURSIVE TextsOfLen(_)
TextsOfLen(n) ==
    IF n = 0 THEN { <<>> }
    ELSE { Append(t, c) : t \in TextsOfLen(n - 1), c \in DomChars }

\* The documents of up to `nodes` text nodes, none empty, with up to `chars`
\* characters together.
RECURSIVE Doms(_, _)
Doms(nodes, chars) ==
    IF nodes = 0 \/ chars = 0 THEN { <<>> }
    ELSE { <<>> }
         \cup UNION { { <<TextNode(t, path)>> \o rest :
                          t \in TextsOfLen(k), path \in Paths,
                          rest \in Doms(nodes - 1, chars - k) } :
                      k \in 1..chars }

\* Documents spelled out in full: one text node in the content, in which a
\* match of s:m stands next to another word character.
SampleDoms ==
    { << TextNode(<<"s", "s", ":", "m">>, << El("DIV", "") >>) >>,
      << TextNode(<<"s", ":", "m", "s">>, << El("DIV", "") >>) >> }

\* element.closest('.' + class), from the parent element of a text node up.
closest(path, class) == \E i \in 1..Len(path) : path[i].class = class

\* Faulty variant of shouldProcessNode: only the parent element is tested
\* for the marker class, not its ancestors.
shouldProcessNodeParentOnly(node) ==
    /\ Trim(node.text) # <<>>
    /\ node.path # <<>>
    /\ node.path[Len(node.path)].class # "tooltip-term"
    /\ ~closest(node.path, "tooltip-popover")
    /\ node.path[Len(node.path)].tag \notin {"SCRIPT", "STYLE"}

\* shouldProcessNode(node): FILTER_ACCEPT.
shouldProcessNode(node) ==
    /\ Trim(node.text) # <<>>
    /\ node.path # <<>>
    /\ ~(closest(node.path, "tooltip-term") \/ closest(node.path, "tooltip-popover"))
    /\ node.path[Len(node.path)].tag \notin {"SCRIPT", "STYLE"}

\* Faulty variant of createTermNode: the element is given no class.
createTermNodeNoClass(match, path) ==
    TextNode(match.text, Append(path, El("SPAN", "")))

\* createTermNode(match, originalParent): the marker element with its text.
createTermNode(match, path) ==
    TextNode(match.text, Append(path, TermElement(match.definitionId)))

\* text.slice(from, to)
Slice(t, from, to) == SubSeq(t, from + 1, to)

\* Faulty variant of fragment: the text after the last match is dropped.
RECURSIVE fragmentNoTail(_, _, _)
fragmentNoTail(node, ms, lastIndex) ==
    IF ms = <<>> THEN <<>>
    ELSE LET match == Head(ms) IN
         (IF match.start > lastIndex
          THEN << TextNode(Slice(node.text, lastIndex, match.start), node.path) >>
          ELSE <<>>)
         \o << createTermNode(match, node.path) >>
         \o fragmentNoTail(node, Tail(ms), match.end)

\* The fragment processTextNode builds from the matches ms, from lastIndex
\* on: the text before each match, the marker of the match, and the text
\* after the last match.
RECURSIVE fragment(_, _, _)
fragment(node, ms, lastIndex) ==
    IF ms = <<>>
    THEN IF lastIndex < Len(node.text)
         THEN << TextNode(Slice(node.text, lastIndex, Len(node.text)), node.path) >>
         ELSE <<>>
    ELSE LET match == Head(ms) IN
         (IF match.start > lastIndex
          THEN << TextNode(Slice(node.text, lastIndex, match.start), node.path) >>
          ELSE <<>>)
         \o << createTermNode(match, node.path) >>
         \o fragment(node, Tail(ms), match.end)

\* processTextNode(node): the nodes that stand in the place of node
\* afterwards (node itself when nothing matches).
processTextNode(node) ==
    LET ms == findMatches(definitions, node.text) IN
    IF node.text = <<>> \/ ms = <<>> THEN <<node>>
    ELSE fragment(node, ms, 0)

\* decorate(root), on the document d whose text nodes lo..hi are the ones
\* under root: the accepted ones are collected, then each is processed.
RECURSIVE decorateNodes(_, _, _, _)
decorateNodes(d, i, lo, hi) ==
    IF i > Len(d) THEN <<>>
    ELSE (IF i >= lo /\ i <= hi /\ shouldProcessNode(d[i])
          THEN processTextNode(d[i])
          ELSE << d[i] >>)
         \o decorateNodes(d, i + 1, lo, hi)

\* The roots decorate is called with, each given by the text nodes lo..hi
\* under it: the whole document, the parent of one text node, and (lo > hi)
\* null or an element without text.
Roots(d) ==
    { <<1, Len(d)>>, <<1, 0>> } \cup { <<i, i>> : i \in 1..Len(d) }

\* A call decorate(root), root with the text nodes lo..hi under it.
decorate(lo, hi) ==
    /\ dom' = decorateNodes(dom, 1, lo, hi)
    /\ UNCHANGED matcherVars

\* A manager with the default definitions, and a document.
InitDecorate ==
    /\ ContentLoaderInit
    /\ UtilsInit
    /\ CPPGuideAppInit
    /\ definitions = DefaultDefinitions
    /\ text = <<>>
    /\ matches = <<>>
    /\ matchPc = "done"
    /\ dom \in Doms(MaxNodes, MaxDomChars) \cup SampleDoms
    /\ PopoverInit

NextDecorate ==
    \E root \in Roots(dom) :
        decorate(root[1], root[2]) /\ UNCHANGED <<loaderVars, utilsVars, appVars, tooltipVars>>

SpecDecorate == InitDecorate /\ [][NextDecorate]_vars

\* ------------------------------------------- TooltipManager: the popover
\* Timer handles; a handle is free again once its timer has fired or was
\* cleared and this.hideTimeout no longer holds it.
MaxTimers == 2
TimerIds == 1..MaxTimers

\* The markers of the page, and the definition id each carries in
\* dataset.tooltipId (decltype is the id two definitions share).
Terms == {"t1", "t2"}
TooltipId(term) == IF term = "t1" THEN "std-move" ELSE "decltype"

\* The elements the pointer can be over: the markers, an element inside
\* marker t1, and the rest of the page. The elements that can have the
\* focus: the markers (tabIndex 0) and a button.
Elements == Terms \cup {"t1-child", "body"}
Focusable == Terms \cup {"button"}

\* element.closest('.tooltip-term')
closestTerm(element) ==
    IF element \in Terms THEN element
    ELSE IF element = "t1-child" THEN "t1"
    ELSE Null

\* term.contains(element)
contains(term, element) == element # Null /\ closestTerm(element) = term

\* Faulty variant of definitionMap: of the definitions with one id the first
\* one is kept.
definitionMapFirst ==
    [id \in { definitions[i].id : i \in 1..Len(definitions) } |->
        definitions[CHOOSE i \in 1..Len(definitions) :
                       /\ definitions[i].id = id
                       /\ \A j \in 1..(i - 1) : definitions[j].id # id]]

\* this.definitionMap: filled by definitions.forEach, so that of the
\* definitions with one id the last one is kept.
definitionMap ==
    [id \in { definitions[i].id : i \in 1..Len(definitions) } |->
        definitions[CHOOSE i \in 1..Len(definitions) :
                       /\ definitions[i].id = id
                       /\ \A j \in (i + 1)..Len(definitions) : definitions[j].id # id]]

\* The fixed side padding of positionTooltip, and the gap it leaves between
\* the marker and the popover, in px.
Padding == 12
Gap == 12

\* Lengths are computed in quarter pixels, so that the halving of
\* (rect.width - tooltipRect.width) / 2 is exact: Px of a number of pixels,
\* Q of a length of the layout. Math.round rounds a half upwards.
Px(n) == 4 * n
Q(h) == 2 * h
MathRound(q) == (q + 2) \div 4

\* Faulty variant of positionTooltip: left is not clamped to maxLeft.
positionTooltipNoMaxLeft(term) ==
    LET rect == layout.rect[term]
        tooltipRect == layout.tooltipRect
        above == Q(rect.top) - Q(tooltipRect.height) - Px(Gap)
        top == IF above < Px(Gap) THEN Q(rect.top + rect.height) + Px(Gap)
               ELSE above
        centred == Q(rect.left) + (rect.width - tooltipRect.width)
        padding == Px(Padding)
        left == IF centred < padding THEN padding ELSE centred
    IN  <<MathRound(top), MathRound(left)>>

\* positionTooltip(term): <<style.top, style.left>>, in px.
positionTooltip(term) ==
    LET rect == layout.rect[term]
        tooltipRect == layout.tooltipRect
        above == Q(rect.top) - Q(tooltipRect.height) - Px(Gap)
        top == IF above < Px(Gap) THEN Q(rect.top + rect.height) + Px(Gap)
               ELSE above
        centred == Q(rect.left) + (rect.width - tooltipRect.width)
        padding == Px(Padding)
        left1 == IF centred < padding THEN padding ELSE centred
        maxLeft == Q(layout.innerWidth) - Q(tooltipRect.width) - padding
        left == IF left1 > maxLeft THEN maxLeft ELSE left1
    IN  <<MathRound(top), MathRound(left)>>

\* Faulty variant of showTooltip: the pending hide timer is not cleared.
showTooltipNoClear(term) ==
    IF TooltipId(term) \notin DOMAIN definitionMap
    THEN UNCHANGED tipState
    ELSE /\ timers' = timers
         /\ activeTerm' = term
         /\ popover' = [ariaHidden |-> "false", visibility |-> "visible",
                        visible |-> TRUE,
                        title |-> definitionMap[TooltipId(term)].title,
                        body |-> definitionMap[TooltipId(term)].body,
                        place |-> positionTooltip(term)]
         /\ UNCHANGED hideTimeout

\* showTooltip(term)
showTooltip(term) ==
    IF TooltipId(term) \notin DOMAIN definitionMap
    THEN UNCHANGED tipState
    ELSE /\ timers' = timers \ {hideTimeout}
         /\ activeTerm' = term
         /\ popover' = [ariaHidden |-> "false", visibility |-> "visible",
                        visible |-> TRUE,
                        title |-> definitionMap[TooltipId(term)].title,
                        body |-> definitionMap[TooltipId(term)].body,
                        place |-> positionTooltip(term)]
         /\ UNCHANGED hideTimeout

\* Faulty variant of scheduleHide: the last timer is not cleared.
scheduleHideNoClear ==
    LET free == TimerIds \ (timers \cup {hideTimeout})
    IN  /\ free # {}
        /\ hideTimeout' = Min(free)
        /\ timers' = timers \cup {Min(free)}
        /\ UNCHANGED <<activeTerm, popover>>

\* scheduleHide(): the last timer is cleared and a new one is set.
scheduleHide ==
    LET pending == timers \ {hideTimeout}
        free == TimerIds \ (pending \cup {hideTimeout})
    IN  /\ free # {}
        /\ hideTimeout' = Min(free)
        /\ timers' = pending \cup {Min(free)}
        /\ UNCHANGED <<activeTerm, popover>>

\* Faulty variant of hideTooltip: this.activeTerm is left as it is.
hideTooltipKeepTerm ==
    /\ activeTerm' = activeTerm
    /\ popover' = [popover EXCEPT !.ariaHidden = "true",
                                  !.visibility = "hidden",
                                  !.visible = FALSE]

\* hideTooltip()
hideTooltip ==
    /\ activeTerm' = Null
    /\ popover' = [popover EXCEPT !.ariaHidden = "true",
                                  !.visibility = "hidden",
                                  !.visible = FALSE]

\* handleScroll(), run in the layout the scroll or the resize has made
\* (layout').
handleScroll ==
    /\ UNCHANGED <<activeTerm, hideTimeout, timers>>
    /\ popover' = IF activeTerm # Null
                  THEN [popover EXCEPT !.place = positionTooltip(activeTerm)']
                  ELSE popover

\* What tipOut records of an event: the event, and what the handler did
\* with the popover ("show", "scheduleHide", "none"), whether a pending
\* timer was cleared, and the marker the popover showed before the event.
Handled(name, event, did) ==
    [event |-> name, target |-> event.target,
     relatedTarget |-> event.relatedTarget, did |-> did,
     cancelled |-> \E id \in timers : id \notin timers',
     was |-> activeTerm]

\* Faulty variant of handlePointerEnter: a marker is shown only while no
\* other one is.
handlePointerEnterWhenFree(event) ==
    LET term == closestTerm(event.target) IN
    IF term = Null \/ activeTerm \notin {Null, term}
    THEN UNCHANGED tipState /\ tipOut' = Handled("mouseover", event, "none")
    ELSE showTooltip(term) /\ tipOut' = Handled("mouseover", event, "show")

\* handlePointerEnter(event)
handlePointerEnter(event) ==
    LET term == closestTerm(event.target) IN
    IF term = Null
    THEN UNCHANGED tipState /\ tipOut' = Handled("mouseover", event, "none")
    ELSE showTooltip(term) /\ tipOut' = Handled("mouseover", event, "show")

\* Faulty variant of handlePointerLeave: a pointer that moves on inside the
\* marker schedules the hide too.
handlePointerLeaveAlways(event) ==
    LET term == closestTerm(event.target) IN
    IF term = Null
    THEN UNCHANGED tipState /\ tipOut' = Handled("mouseout", event, "none")
    ELSE scheduleHide /\ tipOut' = Handled("mouseout", event, "scheduleHide")

\* handlePointerLeave(event)
handlePointerLeave(event) ==
    LET term == closestTerm(event.target) IN
    IF term = Null \/ (event.relatedTarget # Null /\ contains(term, event.relatedTarget))
    THEN UNCHANGED tipState /\ tipOut' = Handled("mouseout", event, "none")
    ELSE scheduleHide /\ tipOut' = Handled("mouseout", event, "scheduleHide")

\* handleFocus(event)
handleFocus(event) ==
    LET term == closestTerm(event.target) IN
    IF term = Null
    THEN UNCHANGED tipState /\ tipOut' = Handled("focusin", event, "none")
    ELSE showTooltip(term) /\ tipOut' = Handled("focusin", event, "show")

\* handleBlur(event)
handleBlur(event) ==
    LET term == closestTerm(event.target) IN
    IF term = Null
    THEN UNCHANGED tipState /\ tipOut' = Handled("focusout", event, "none")
    ELSE scheduleHide /\ tipOut' = Handled("focusout", event, "scheduleHide")

\* No event of a pair (mouseout then mouseover, focusout then focusin) is
\* half dispatched.
BetweenEvents == ~overPending /\ ~focusPending

\* The pointer leaves the element it is over for the element `to` (Null:
\* it leaves the page): mouseout is dispatched.
MouseOut(to) ==
    /\ BetweenEvents
    /\ pointer # Null
    /\ to # pointer
    /\ handlePointerLeave([target |-> pointer, relatedTarget |-> to])
    /\ pointer' = to
    /\ overPending' = (to # Null)
    /\ UNCHANGED <<focus, focusPending, layout>>

\* The pointer arrives on the element `to`, from the element it just left
\* or from outside the page: mouseover is dispatched.
MouseOver(to) ==
    /\ \/ overPending /\ to = pointer
       \/ BetweenEvents /\ pointer = Null
    /\ handlePointerEnter([target |-> to, relatedTarget |-> Null])
    /\ pointer' = to
    /\ overPending' = FALSE
    /\ UNCHANGED <<focus, focusPending, layout>>

\* The focus leaves the element that has it for `to` (Null: for nothing):
\* focusout is dispatched.
FocusOut(to) ==
    /\ BetweenEvents
    /\ focus # Null
    /\ to # focus
    /\ handleBlur([target |-> focus, relatedTarget |-> to])
    /\ focus' = to
    /\ focusPending' = (to # Null)
    /\ UNCHANGED <<pointer, overPending, layout>>

\* The focus arrives on `to`: focusin is dispatched.
FocusIn(to) ==
    /\ \/ focusPending /\ to = focus
       \/ BetweenEvents /\ focus = Null
    /\ handleFocus([target |-> to, relatedTarget |-> Null])
    /\ focus' = to
    /\ focusPending' = FALSE
    /\ UNCHANGED <<pointer, overPending, layout>>

\* The hide timer `id` fires, 150 ms after scheduleHide set it.
HideTimer(id) ==
    /\ BetweenEvents
    /\ id \in timers
    /\ timers' = timers \ {id}
    /\ hideTooltip
    /\ tipOut' = [event |-> "timeout", target |-> Null, relatedTarget |-> Null,
                  did |-> "hide", cancelled |-> FALSE, was |-> activeTerm]
    /\ UNCHANGED <<hideTimeout, inputVars, layout>>

\* How far the page can be scrolled and how wide the window can be made, in
\* half pixels.
ScrollOffsets == {0, 180}
InnerWidths == {400, 180}

\* The page is scrolled to y, or the window is resized to the width w: the
\* scroll and resize listeners run handleScroll.
Scroll(y) ==
    /\ BetweenEvents
    /\ y # layout.scrollY
    /\ layout' = [layout EXCEPT
            !.scrollY = y,
            !.rect = [t \in DOMAIN layout.rect |->
                        [layout.rect[t] EXCEPT !.top = @ - (y - layout.scrollY)]]]
    /\ handleScroll
    /\ tipOut' = [event |-> "scroll", target |-> Null, relatedTarget |-> Null,
                  did |-> IF activeTerm # Null THEN "position" ELSE "none",
                  cancelled |-> FALSE, was |-> activeTerm]
    /\ UNCHANGED inputVars

Resize(w) ==
    /\ BetweenEvents
    /\ w # layout.innerWidth
    /\ layout' = [layout EXCEPT !.innerWidth = w]
    /\ handleScroll
    /\ tipOut' = [event |-> "resize", target |-> Null, relatedTarget |-> Null,
                  did |-> IF activeTerm # Null THEN "position" ELSE "none",
                  cancelled |-> FALSE, was |-> activeTerm]
    /\ UNCHANGED inputVars

NextTooltip ==
    \/ \E to \in Elements \cup {Null} :
          MouseOut(to) /\ UNCHANGED <<loaderVars, utilsVars, appVars, matcherVars, dom>>
    \/ \E to \in Elements :
          MouseOver(to) /\ UNCHANGED <<loaderVars, utilsVars, appVars, matcherVars, dom>>
    \/ \E to \in Focusable \cup {Null} :
          FocusOut(to) /\ UNCHANGED <<loaderVars, utilsVars, appVars, matcherVars, dom>>
    \/ \E to \in Focusable :
          FocusIn(to) /\ UNCHANGED <<loaderVars, utilsVars, appVars, matcherVars, dom>>
    \/ \E id \in TimerIds :
          HideTimer(id) /\ UNCHANGED <<loaderVars, utilsVars, appVars, matcherVars, dom>>
    \/ \E y \in ScrollOffsets :
          Scroll(y) /\ UNCHANGED <<loaderVars, utilsVars, appVars, matcherVars, dom>>
    \/ \E w \in InnerWidths :
          Resize(w) /\ UNCHANGED <<loaderVars, utilsVars, appVars, matcherVars, dom>>

SpecTooltip == Init /\ [][NextTooltip]_vars

\* The browser runs the callback of every timer that stays pending, and it
\* dispatches the second event of a pair (mouseover after mouseout, focusin
\* after focusout) in the task that dispatched the first.
TimerFires ==
    \E id \in TimerIds :
       HideTimer(id) /\ UNCHANGED <<loaderVars, utilsVars, appVars, matcherVars, dom>>

PairCompletes ==
    \/ \E to \in Elements :
          overPending /\ MouseOver(to) /\ UNCHANGED <<loaderVars, utilsVars, appVars, matcherVars, dom>>
    \/ \E to \in Focusable :
          focusPending /\ FocusIn(to) /\ UNCHANGED <<loaderVars, utilsVars, appVars, matcherVars, dom>>

SpecTooltipLive ==
    /\ Init
    /\ [][NextTooltip]_vars
    /\ WF_vars(TimerFires)
    /\ WF_vars(PairCompletes)

\* ---------------------------------------- TooltipManager: positionTooltip
\* positionTooltip on the layouts of a small window: the viewport is up to
\* MaxViewport px wide, the popover up to MaxTipWidth half pixels, and the
\* marker t1 lies anywhere from left of the viewport to its right edge.
MaxViewport == 32
MaxTipWidth == 20

Layouts(viewport, tipWidth) ==
    { [scrollY |-> 0, innerWidth |-> 2 * viewport - k,
       tooltipRect |-> [width |-> tw, height |-> th],
       rect |-> [t1 |-> Rect(rt, rl, rw, 20), t2 |-> PageLayout.rect.t2]] :
      k \in 0..3, tw \in 1..tipWidth, th \in {16, 61},
      rt \in {20, 80}, rl \in (-4)..(2 * viewport), rw \in {1, 8, 9} }

\* new TooltipManager() on a page laid out in one of these ways.
InitPosition ==
    /\ ContentLoaderInit
    /\ UtilsInit
    /\ CPPGuideAppInit
    /\ definitions = DefaultDefinitions
    /\ text = <<>>
    /\ matches = <<>>
    /\ matchPc = "done"
    /\ dom = <<>>
    /\ activeTerm = Null
    /\ hideTimeout = 0
    /\ timers = {}
    /\ popover = NewPopover
    /\ pointer = Null
    /\ overPending = FALSE
    /\ focus = Null
    /\ focusPending = FALSE
    /\ layout \in Layouts(MaxViewport, MaxTipWidth)
    /\ tipOut = NoEvent

\* The pointer enters marker t1: showTooltip positions the popover.
NextPosition ==
    /\ tipOut = NoEvent
    /\ MouseOver("t1")
    /\ UNCHANGED <<loaderVars, utilsVars, appVars, matcherVars, dom>>

SpecPosition == InitPosition /\ [][NextPosition]_vars

\* ------------------------------------------------ utils.js: EventEmitter
\* An emitter with up to MaxListeners callbacks per event. The callbacks are
\* the caller's functions: a returns at once, b calls off(event, a) on the
\* emitter when it is invoked, c calls on(event, a).
MaxListeners == 2
EventNames == {"x", "y"}
Callbacks == {"a", "b", "c"}
DataValues == {"d1", "d2"}

Effect(callback) ==
    CASE callback = "b" -> [op |-> "off", callback |-> "a"]
      [] callback = "c" -> [op |-> "on", callback |-> "a"]
      [] OTHER -> [op |-> "none", callback |-> callback]

\* on(event, callback), on the value ev of this.events
on(ev, event, callback) ==
    IF event \notin DOMAIN ev
    THEN MapSet(ev, event, <<callback>>)
    ELSE MapSet(ev, event, Append(ev[event], callback))

\* Faulty variant of off: the callback is removed from every event.
offEveryEvent(ev, event, callback) ==
    [e \in DOMAIN ev |-> SelectSeq(ev[e], LAMBDA cb : cb # callback)]

\* off(event, callback), on the value ev of this.events
off(ev, event, callback) ==
    IF event \notin DOMAIN ev
    THEN ev
    ELSE MapSet(ev, event, SelectSeq(ev[event], LAMBDA cb : cb # callback))

\* What a callback does to the emitter when emit invokes it.
Run(callback, event, ev) ==
    LET effect == Effect(callback) IN
    IF effect.op = "on" THEN on(ev, event, effect.callback)
    ELSE IF effect.op = "off" THEN off(ev, event, effect.callback)
    ELSE ev

\* Faulty variant of forEach: the length of the array is read anew at every
\* step, so a callback pushed during the iteration is visited too.
RECURSIVE forEachLive(_, _, _, _, _)
forEachLive(st, len, k, event, data) ==
    IF k > Len(st.arr) THEN st
    ELSE LET callback == st.arr[k]
             effect == Effect(callback)
             next == [arr |-> IF effect.op = "on" /\ st.same
                              THEN Append(st.arr, effect.callback)
                              ELSE st.arr,
                      same |-> st.same /\ effect.op # "off",
                      ev |-> Run(callback, event, st.ev),
                      log |-> Append(st.log, [callback |-> callback,
                                              data |-> data])]
         IN  forEachLive(next, len, k + 1, event, data)

\* this.events[event].forEach(callback => callback(data)): forEach visits
\* the indices below the length the array had at the start. arr is the array
\* it iterates; same tells whether this.events[event] is still that array,
\* so that a push by on() lands in it (off() puts a new array in its place).
RECURSIVE forEach(_, _, _, _, _)
forEach(st, len, k, event, data) ==
    IF k > len THEN st
    ELSE LET callback == st.arr[k]
             effect == Effect(callback)
             next == [arr |-> IF effect.op = "on" /\ st.same
                              THEN Append(st.arr, effect.callback)
                              ELSE st.arr,
                      same |-> st.same /\ effect.op # "off",
                      ev |-> Run(callback, event, st.ev),
                      log |-> Append(st.log, [callback |-> callback,
                                              data |-> data])]
         IN  forEach(next, len, k + 1, event, data)

\* emit(event, data): the state after it, with the log of the invocations.
emit(ev, event, data) ==
    IF event \notin DOMAIN ev
    THEN [arr |-> <<>>, same |-> TRUE, ev |-> ev, log |-> <<>>]
    ELSE forEach([arr |-> ev[event], same |-> TRUE, ev |-> ev, log |-> <<>>],
                 Len(ev[event]), 1, event, data)

\* A caller calls on(event, callback) and keeps the function it returns.
On(event, callback) ==
    /\ event \in DOMAIN events => Len(events[event]) < MaxListeners
    /\ events' = on(events, event, callback)
    /\ unsubscribers' = unsubscribers \cup {<<event, callback>>}
    /\ emitterOut' = [op |-> "on", event |-> event, callback |-> callback]

\* A caller calls off(event, callback).
Off(event, callback) ==
    /\ events' = off(events, event, callback)
    /\ emitterOut' = [op |-> "off", event |-> event, callback |-> callback]
    /\ UNCHANGED unsubscribers

\* A caller calls a function that on(event, callback) returned.
Unsubscribe(event, callback) ==
    /\ <<event, callback>> \in unsubscribers
    /\ events' = off(events, event, callback)
    /\ emitterOut' = [op |-> "unsubscribe", event |-> event,
                      callback |-> callback]
    /\ UNCHANGED unsubscribers

\* A caller calls emit(event, data).
Emit(event, data) ==
    LET after == emit(events, event, data) IN
    /\ \A e \in DOMAIN after.ev : Len(after.ev[e]) <= MaxListeners
    /\ events' = after.ev
    /\ emitterOut' = [op |-> "emit", event |-> event, data |-> data,
                      invoked |-> after.log]
    /\ UNCHANGED unsubscribers

NextEmitter ==
    \/ \E event \in EventNames, callback \in Callbacks :
          On(event, callback) /\ UNCHANGED <<loaderVars, managerVars, throttleVars, appVars>>
    \/ \E event \in EventNames, callback \in Callbacks :
          Off(event, callback) /\ UNCHANGED <<loaderVars, managerVars, throttleVars, appVars>>
    \/ \E event \in EventNames, callback \in Callbacks :
          Unsubscribe(event, callback)
          /\ UNCHANGED <<loaderVars, managerVars, throttleVars, appVars>>
    \/ \E event \in EventNames, data \in DataValues :
          Emit(event, data) /\ UNCHANGED <<loaderVars, managerVars, throttleVars, appVars>>

SpecEmitter == Init /\ [][NextEmitter]_vars

\* ---------------------------------------------------- utils.js: throttle
\* The scroll handler of setupScrollSpy: throttle(func, 100). The clock
\* advances by ThrottleTickMs up to MaxThrottleTicks times; a timer fires
\* when it is due or later.
Limit == 100
ThrottleTickMs == 50
MaxThrottleTicks == 8
ArgValues == {"e1", "e2"}

\* Faulty variant of throttled: inThrottle is not set.
throttledNoFlag(args) ==
    IF ~inThrottle
    THEN /\ throttleOut' = [op |-> "call", invoked |-> TRUE, args |-> args]
         /\ lastInvoked' = clock
         /\ inThrottle' = inThrottle
         /\ throttleTimer' = clock + Limit
    ELSE /\ throttleOut' = [op |-> "call", invoked |-> FALSE, args |-> args]
         /\ UNCHANGED <<inThrottle, throttleTimer, lastInvoked>>

\* The function throttle returns, called with args: func is invoked, the
\* flag is set and the timer started; or nothing is done.
throttled(args) ==
    IF ~inThrottle
    THEN /\ throttleOut' = [op |-> "call", invoked |-> TRUE, args |-> args]
         /\ lastInvoked' = clock
         /\ inThrottle' = TRUE
         /\ throttleTimer' = clock + Limit
    ELSE /\ throttleOut' = [op |-> "call", invoked |-> FALSE, args |-> args]
         /\ UNCHANGED <<inThrottle, throttleTimer, lastInvoked>>

\* A scroll event: the throttled function is called.
ThrottledCall(args) ==
    /\ throttled(args)
    /\ UNCHANGED clock

\* The timer's callback: () => inThrottle = false
ThrottleTimer ==
    /\ throttleTimer >= 0
    /\ clock >= throttleTimer
    /\ inThrottle' = FALSE
    /\ throttleTimer' = -1
    /\ throttleOut' = [op |-> "timer", invoked |-> FALSE, args |-> ""]
    /\ UNCHANGED <<clock, lastInvoked>>

\* Time passes.
ThrottleTick ==
    /\ clock < MaxThrottleTicks * ThrottleTickMs
    /\ clock' = clock + ThrottleTickMs
    /\ throttleOut' = [op |-> "tick", invoked |-> FALSE, args |-> ""]
    /\ UNCHANGED <<inThrottle, throttleTimer, lastInvoked>>

NextThrottle ==
    \/ \E args \in ArgValues :
          ThrottledCall(args) /\ UNCHANGED <<loaderVars, managerVars, emitterVars, appVars>>
    \/ ThrottleTimer /\ UNCHANGED <<loaderVars, managerVars, emitterVars, appVars>>
    \/ ThrottleTick /\ UNCHANGED <<loaderVars, managerVars, emitterVars, appVars>>

SpecThrottle == Init /\ [][NextThrottle]_vars

\* -------------------------------------------------- app.js: CPPGuideApp
\* switchTab calls that can await their fetch at the same time.
MaxSwitches == 2

\* The responses of fetch(`content/${file}`) for a tab: a document, a
\* status that is not ok, a rejection.
DocumentOf(tabId) == <<"document", tabId>>

AppResponses(tabId) ==
    { [rejected |-> FALSE, ok |-> TRUE, body |-> DocumentOf(tabId)],
      [rejected |-> FALSE, ok |-> FALSE, body |-> <<>>],
      [rejected |-> TRUE, ok |-> FALSE, body |-> <<>>] }

\* updateTabStates(activeTabId): the button of that tab, if there is one,
\* gets the active classes, every other button the inactive ones.
updateTabStates(activeTabId) ==
    IF activeTabId \in TabsConfig THEN activeTabId ELSE Null

\* hideLoading(): the loading indicator is removed if it is there.
hideLoading(shown) == IF shown = LoadingView THEN EmptyView ELSE shown

\* CPPGuideApp.loadContent(tabId) up to its first await: the cached
\* content, the error for a tab the configuration does not list, or the
\* start of a fetch.
appLoadContent(tabId) ==
    IF tabId \in DOMAIN contentCache
    THEN [kind |-> "return", content |-> contentCache[tabId]]
    ELSE IF tabId \notin TabsConfig
    THEN [kind |-> "throw", content |-> <<>>]
    ELSE [kind |-> "fetch", content |-> <<>>]

\* Faulty variant of appLoadContentResume: the body is cached before the
\* status is looked at.
appLoadContentResumeCacheFirst(tabId, resp) ==
    IF resp.rejected
    THEN [kind |-> "throw", content |-> <<>>, cache |-> contentCache]
    ELSE IF ~resp.ok
    THEN [kind |-> "throw", content |-> <<>>,
          cache |-> MapSet(contentCache, tabId, resp.body)]
    ELSE [kind |-> "return", content |-> resp.body,
          cache |-> MapSet(contentCache, tabId, resp.body)]

\* CPPGuideApp.loadContent(tabId) after its fetch has completed with resp
\* (and the body has been read): an error, or the content, which is cached.
appLoadContentResume(tabId, resp) ==
    IF resp.rejected \/ ~resp.ok
    THEN [kind |-> "throw", content |-> <<>>, cache |-> contentCache]
    ELSE [kind |-> "return", content |-> resp.body,
          cache |-> MapSet(contentCache, tabId, resp.body)]

\* switchTab(tabId) after `await this.loadContent(tabId)`: the content is
\* displayed and currentTab set, or the catch block shows the error view;
\* finally hideLoading().
switchTabResume(tabId, loaded) ==
    IF loaded.kind = "return"
    THEN /\ container' = hideLoading(ContentView(loaded.content))
         /\ currentTab' = tabId
    ELSE /\ container' = hideLoading(ErrorView)
         /\ UNCHANGED currentTab

\* A turn that calls switchTab(tabId) (a click on a tab button, or a call
\* from a script): showLoading(), updateTabStates(tabId) and loadContent,
\* which returns or throws before the turn ends or leaves the call waiting
\* for its fetch.
SwitchTabCall(tabId) ==
    LET loaded == appLoadContent(tabId) IN
    /\ activeButton' = updateTabStates(tabId)
    /\ IF loaded.kind = "fetch"
       THEN /\ Len(switches) < MaxSwitches
            /\ switches' = Append(switches, tabId)
            /\ container' = LoadingView
            /\ latest' = [tabId |-> tabId, state |-> "pending"]
            /\ appOut' = [op |-> "switchTab", tabId |-> tabId,
                          result |-> "pending", threw |-> FALSE, fetch |-> TRUE]
            /\ UNCHANGED <<currentTab, contentCache>>
       ELSE /\ switchTabResume(tabId, loaded)
            /\ latest' = [tabId |-> tabId,
                          state |-> IF loaded.kind = "return" THEN "shown" ELSE "error"]
            /\ appOut' = [op |-> "switchTab", tabId |-> tabId,
                          result |-> IF loaded.kind = "return" THEN "shown" ELSE "error",
                          threw |-> FALSE, fetch |-> FALSE]
            /\ UNCHANGED <<switches, contentCache>>

\* The fetch of the i-th waiting switchTab call completes with resp.
FetchCompletes(i, resp) ==
    LET tabId == switches[i]
        loaded == appLoadContentResume(tabId, resp)
    IN  /\ contentCache' = loaded.cache
        /\ switchTabResume(tabId, loaded)
        /\ switches' = SubSeq(switches, 1, i - 1) \o SubSeq(switches, i + 1, Len(switches))
        /\ latest' = IF i = Len(switches) /\ latest.state = "pending"
                      THEN [latest EXCEPT
                              !.state = IF loaded.kind = "return" THEN "shown" ELSE "error"]
                      ELSE latest
        /\ appOut' = [op |-> "resume", tabId |-> tabId,
                      result |-> IF loaded.kind = "return" THEN "shown" ELSE "error",
                      threw |-> FALSE, fetch |-> FALSE]
        /\ UNCHANGED activeButton

NextApp ==
    \/ \E tabId \in AppTabIds :
          SwitchTabCall(tabId) /\ UNCHANGED <<loaderVars, managerVars, utilsVars>>
    \/ \E i \in 1..Len(switches) : \E resp \in AppResponses(switches[i]) :
          FetchCompletes(i, resp) /\ UNCHANGED <<loaderVars, managerVars, utilsVars>>

SpecApp == Init /\ [][NextApp]_vars

\* ------------------------------------------------------------- C1 .. C10
\* The age test of the cache check, as the specification states it.
Age(k) == now - cache[k].timestamp

\* A response that is a failure: a rejected fetch, a non-2xx status, or a
\* 2xx response whose body is empty or blank.
EmptyBody(resp) ==
    /\ ~resp.rejected
    /\ \A i \in 1..Len(resp.body) : resp.body[i] \in Whitespace

Failure(resp) ==
    resp.rejected \/ resp.status < 200 \/ resp.status > 299 \/ EmptyBody(resp)

\* C1: the fallback document returned when the retries are exhausted is not
\* stored in the cache: no cache entry ever holds a fallback document.
C1_FallbackNotCached ==
    \A k \in DOMAIN cache : ~IsFallback(cache[k].content)

\* C2: a loadContent call for a key with a pending fetch (and no fresh cache
\* hit) issues no network request, leaves the pending load as it is, and is
\* handed the pending promise.
C2_Coalescing ==
    [][\A k \in TabIds, useCache \in BOOLEAN :
          ( /\ loadContent(k, useCache)
            /\ k \in loadingPromises
            /\ ~(useCache /\ k \in DOMAIN cache /\ Age(k) < CacheTimeout) )
          => /\ net' = net
             /\ attempts' = attempts
             /\ activation' = activation
             /\ loadingPromises' = loadingPromises
             /\ joined'[k]
             /\ out'.op # "return"]_vars

C2_Witness ==
    \E k \in TabIds : joined[k] /\ net[k] = 1 /\ attempts[k] = 1

\* C3: in every reachable state every key has at most one network request
\* outstanding.
C3_OneRequestPerKey ==
    \A k \in TabIds : net[k] <= 1

C3_Witness ==
    \E k \in TabIds :
        /\ net[k] = 1
        /\ joined[k]
        /\ cleared[k]
        /\ attempts[k] > 1
        /\ k \in preload.awaiting

\* C4: a load that no clearCache call interferes with issues at most
\* RetryAttempts + 1 network requests, and when it ends in the fallback
\* document it has issued exactly RetryAttempts + 1 = 4 of them.
C4_RetryCeiling ==
    /\ \A k \in loadingPromises : ~cleared[k] => attempts[k] <= RetryAttempts + 1
    /\ (out.op = "settle" /\ ~out.cleared /\ IsFallback(out.returned))
          => out.attempts = RetryAttempts + 1

C4_Witness ==
    /\ out.op = "settle"
    /\ ~out.cleared
    /\ ~out.joined
    /\ IsFallback(out.returned)
    /\ out.attempts = 4

\* C5: loadContent(k, true) with a cache entry younger than the timeout
\* returns the cached content at once, issues no network request, and leaves
\* the cache, the in-flight map and the retry counters unchanged.
C5_FreshHit ==
    [][\A k \in TabIds :
          ( /\ loadContent(k, TRUE)
            /\ k \in DOMAIN cache
            /\ Age(k) < CacheTimeout )
          => /\ out'.op = "return"
             /\ out'.tabId = k
             /\ out'.returned = cache[k].content
             /\ net' = net
             /\ cache' = cache
             /\ loadingPromises' = loadingPromises
             /\ retryCount' = retryCount]_vars

C5_Witness ==
    /\ out.op = "return"
    /\ out.tabId \in DOMAIN cache
    /\ out.returned = cache[out.tabId].content
    /\ Age(out.tabId) = TickMs

\* C6: a cache entry is served only while its age is strictly below the
\* timeout; a loadContent call that finds an entry of age >= timeout is not
\* served from it (it goes to the network: it starts a request, or joins the
\* pending one) and does not delete the entry; the stale entry stays in the
\* cache until a successful load of its key overwrites it or clearCache
\* removes it.
C6_StaleStaysUntilSuccess ==
    [][\A k \in TabIds :
          /\ \A useCache \in BOOLEAN :
                ( /\ loadContent(k, useCache)
                  /\ k \in DOMAIN cache
                  /\ Age(k) >= CacheTimeout )
                => /\ out'.op # "return"
                   /\ cache' = cache
                   /\ k \in loadingPromises'
                   /\ k \notin loadingPromises => net'[k] = net[k] + 1
          /\ (out'.op = "return" /\ out'.tabId = k)
                => (k \in DOMAIN cache /\ Age(k) < CacheTimeout)
          /\ ( /\ k \in DOMAIN cache
               /\ Age(k) >= CacheTimeout
               /\ (k \notin DOMAIN cache' \/ cache'[k] # cache[k]) )
                => \/ /\ out'.op = "settle"
                      /\ out'.tabId = k
                      /\ ~IsFallback(out'.returned)
                   \/ clearCache(k)
                   \/ clearCache(Undefined)]_vars

\* The part of C6 that does not depend on which loads write the cache: the
\* strict age test, and a lookup that ignores a stale entry without deleting
\* it; an entry changes only when a load of its key settles or clearCache is
\* called.
C6_StaleIgnoredNotDeleted ==
    [][\A k \in TabIds :
          /\ \A useCache \in BOOLEAN :
                ( /\ loadContent(k, useCache)
                  /\ k \in DOMAIN cache
                  /\ Age(k) >= CacheTimeout )
                => /\ out'.op # "return"
                   /\ cache' = cache
                   /\ k \in loadingPromises'
                   /\ k \notin loadingPromises => net'[k] = net[k] + 1
          /\ (out'.op = "return" /\ out'.tabId = k)
                => (k \in DOMAIN cache /\ Age(k) < CacheTimeout)
          /\ ( /\ k \in DOMAIN cache
               /\ (k \notin DOMAIN cache' \/ cache'[k] # cache[k]) )
                => \/ (out'.op = "settle" /\ out'.tabId = k)
                   \/ clearCache(k)
                   \/ clearCache(Undefined)]_vars

C6_Witness ==
    \E k \in TabIds :
        /\ k \in DOMAIN cache
        /\ Age(k) = CacheTimeout
        /\ k \in preload.awaiting
        /\ ~joined[k]
        /\ net[k] = 1

\* C7: every cache entry has content that is neither empty nor blank.
C7_CacheContentNonEmpty ==
    \A k \in DOMAIN cache :
        /\ cache[k].content # <<>>
        /\ \E i \in 1..Len(cache[k].content) : cache[k].content[i] \notin Whitespace

C7_Witness ==
    \E k \in DOMAIN cache :
        /\ cache[k].content = FallbackContent(k, "Empty content received")
        /\ k \in loadingPromises

\* C8: a 2xx response with an empty or blank body is handled like a rejected
\* fetch and like a non-2xx status: with retries left it sets the key's retry
\* counter to retries + 1 and waits RetryDelay * (retries + 1), caching
\* nothing and keeping the load pending; with none left the load settles with
\* the fallback document.
C8_EmptyBodyIsFailure ==
    [][\A k \in TabIds, resp \in Responses :
          (NetRespond(k, resp) /\ Failure(resp))
          => IF activation[k].retries < RetryAttempts
             THEN /\ k \in DOMAIN retryCount'
                  /\ retryCount'[k] = activation[k].retries + 1
                  /\ activation'[k].pc = "wait"
                  /\ activation'[k].due = now + RetryDelay * (activation[k].retries + 1)
                  /\ k \in loadingPromises'
                  /\ cache' = cache
                  /\ net'[k] = 0
             ELSE /\ out'.op = "settle"
                  /\ out'.tabId = k
                  /\ IsFallback(out'.returned)
                  /\ k \notin loadingPromises']_vars

C8_Witness ==
    /\ out.op = "settle"
    /\ out.returned = FallbackContent(out.tabId, "Empty content received")
    /\ out.attempts = RetryAttempts + 1
    /\ ~out.cleared

\* C9: when a network request of key k completes with a 2xx status and a
\* body that is not blank, the body is stored in the cache under k with the
\* current time, k's retry counter is removed, and the call returns exactly
\* that body.
C9_SuccessStored ==
    [][\A k \in TabIds, resp \in Responses :
          (NetRespond(k, resp) /\ ~Failure(resp))
          => /\ k \in DOMAIN cache'
             /\ cache'[k] = [content |-> resp.body, timestamp |-> now]
             /\ k \notin DOMAIN retryCount'
             /\ out'.op = "settle"
             /\ out'.tabId = k
             /\ out'.returned = resp.body]_vars

C9_Witness ==
    /\ out.op = "settle"
    /\ ~IsFallback(out.returned)
    /\ out.attempts > 1
    /\ out.tabId \in DOMAIN cache
    /\ cache[out.tabId] = [content |-> out.returned, timestamp |-> now]
    /\ now > 0

\* C10: when a load settles, the call that started it and the callers that
\* were handed its promise get the same value.
C10_SameOutcome ==
    out.op = "settle" => out.returned = out.promise

C10_Witness ==
    /\ out.op = "settle"
    /\ out.joined
    /\ out.attempts > 1
    /\ out.returned = out.promise

\* ------------------------------------------------------------ C11 .. C12
\* C11: loadContent never passes a failure on to its caller: whatever the
\* network does (rejected fetch, non-2xx status, empty body), a completed
\* request either leaves the load pending for a retry or fulfils it, with
\* the body of a good response or with the fallback document of the key;
\* no load is ever rejected.
C11_NeverRejects ==
    [][\A k \in TabIds, resp \in Responses :
          NetRespond(k, resp)
          => \/ /\ k \in loadingPromises'
                /\ activation'[k].pc = "wait"
                /\ out'.op = "none"
             \/ /\ out'.op = "settle"
                /\ out'.tabId = k
                /\ out'.status = "fulfilled"
                /\ out'.events[1].event = "contentLoaded"
                /\ IF Failure(resp)
                   THEN IsFallback(out'.returned) /\ out'.returned[5] = k
                   ELSE out'.returned = resp.body]_vars

C11_Witness ==
    /\ out.op = "settle"
    /\ out.status = "fulfilled"
    /\ out.returned = FallbackContent(out.tabId, "Failed to fetch")
    /\ out.joined
    /\ out.attempts = RetryAttempts + 1

\* The keys loadContent is called with that APP_CONFIG.tabs does not list.
Unconfigured == { k \in TabIds : \A t \in ConfigTabs : t.id # k }

\* C12, as stated: a load of a key that is not configured is never retried:
\* its retry counter is never set and it never waits for a backoff.
C12_UnconfiguredNotRetried ==
    \A k \in Unconfigured :
        /\ k \notin DOMAIN retryCount
        /\ activation[k].pc # "wait"

\* C12, amended: loadContent does not look the key up in the configuration.
\* A key that is not configured is requested from the network and, on a
\* failure, retried like any other key: the retry counter goes to
\* retries + 1 and the backoff wait starts; with the retries exhausted the
\* load is fulfilled with the fallback document, titled with the key itself.
C12_UnconfiguredRetried ==
    [][\A k \in Unconfigured :
          /\ \A useCache \in BOOLEAN :
                (loadContent(k, useCache) /\ ~Fresh(k) /\ k \notin loadingPromises)
                => /\ net'[k] = net[k] + 1
                   /\ k \in loadingPromises'
          /\ \A resp \in Responses :
                (NetRespond(k, resp) /\ Failure(resp))
                => IF activation[k].retries < RetryAttempts
                   THEN /\ k \in DOMAIN retryCount'
                        /\ retryCount'[k] = activation[k].retries + 1
                        /\ activation'[k].pc = "wait"
                        /\ out'.op = "none"
                   ELSE /\ out'.op = "settle"
                        /\ out'.status = "fulfilled"
                        /\ IsFallback(out'.returned)
                        /\ out'.returned[3] = k]_vars

C12_Witness ==
    \E k \in Unconfigured :
        /\ out.op = "settle"
        /\ out.tabId = k
        /\ out.status = "fulfilled"
        /\ out.returned = FallbackContent(k, "HTTP 404: Not Found")
        /\ out.returned[3] = k
        /\ out.attempts = RetryAttempts + 1

\* ------------------------------------------------------------ C13 .. C15
\* Two matches overlap: each starts before the other ends.
Overlap(m1, m2) == m1.start < m2.end /\ m2.start < m1.end

\* C13: findMatches never returns two distinct matches that overlap.
C13_NoOverlap ==
    matchPc = "done" =>
    \A i, j \in 1..Len(matches) :
        i # j => ~Overlap(matches[i], matches[j])

C13_Witness ==
    /\ matchPc = "done"
    /\ Len(matches) = 2
    /\ \E i, j \in 1..Len(rawMatches(definitions, text)) :
          /\ i # j
          /\ Overlap(rawMatches(definitions, text)[i],
                     rawMatches(definitions, text)[j])

\* C14: the matches findMatches returns are in strictly ascending order of
\* their start offsets.
C14_AscendingStarts ==
    matchPc = "done" =>
    \A i, j \in 1..Len(matches) :
        i < j => matches[i].start < matches[j].start

C14_Witness ==
    /\ matchPc = "done"
    /\ Len(matches) = 2
    /\ rawMatches(definitions, text)[1].start > matches[1].start
    /\ matches[2].start = matches[1].end

\* A match m comes before r in the order overlaps are resolved in: it starts
\* earlier, or at the same offset and is at least as long.
Before(m, r) ==
    m.start < r.start \/ (m.start = r.start /\ m.length >= r.length)

\* C15: what findMatches returns is the greedy sweep over the raw matches
\* in the order (start ascending, length descending): every match returned
\* is a raw match, and a raw match is left out exactly when a returned match
\* that comes before it ends after its start; so of two overlapping matches
\* the one that starts earlier is kept, and of two with the same start the
\* longer one. On std::move with the triggers std::move and move the result
\* is the one match of std::move.
C15_GreedyResolution ==
    matchPc = "done" =>
    LET raw == rawMatches(definitions, text)
        Raw == { raw[i] : i \in 1..Len(raw) }
        Kept == { matches[i] : i \in 1..Len(matches) }
    IN  /\ Kept \subseteq Raw
        /\ Cardinality(Kept) = Len(matches)
        /\ \A r \in Raw :
              r \notin Kept
              <=> \E k \in Kept : k # r /\ Before(k, r) /\ r.start < k.end
        /\ \A r1, r2 \in Raw :
              ( /\ Overlap(r1, r2)
                /\ r1.start = r2.start
                /\ r1.length > r2.length ) => r2 \notin Kept
        /\ ( /\ text = <<"s", "t", "d", ":", ":", "m", "o", "v", "e">>
             /\ \E i \in 1..Len(definitions) : ReMove \in
                   { definitions[i].triggers[j] :
                       j \in 1..Len(definitions[i].triggers) } )
              => matches = << [start |-> 0, end |-> 9, length |-> 9,
                               text |-> text, definitionId |-> "std-move"] >>

C15_Witness ==
    /\ matchPc = "done"
    /\ text = <<"s", "t", "d", ":", ":", "m", "o", "v", "e">>
    /\ Len(rawMatches(definitions, text)) = 2
    /\ rawMatches(definitions, text)[1].definitionId = "move"
    /\ Len(matches) = 1
    /\ matches[1].definitionId = "std-move"

\* ------------------------------------------------------------ C16 .. C17
\* The markers above a text node.
TermsAbove(node) ==
    { i \in 1..Len(node.path) : node.path[i].class = "tooltip-term" }

\* The text of a sequence of text nodes.
RECURSIVE TextOf(_)
TextOf(nodes) ==
    IF nodes = <<>> THEN <<>> ELSE Head(nodes).text \o TextOf(Tail(nodes))

\* C16: whatever decorate calls were made, no marker lies inside another
\* marker, and a decorate call leaves alone every text node that has a
\* marker or the popover among its ancestors: the node is still there, at
\* the same place in the text of the document, and a call on such a node
\* alone changes nothing.
C16_NoNestedMarkers ==
    /\ [](\A i \in 1..Len(dom) : Cardinality(TermsAbove(dom[i])) <= 1)
    /\ [][\A root \in Roots(dom) :
             decorate(root[1], root[2])
             => \A i \in 1..Len(dom) :
                   ( \/ closest(dom[i].path, "tooltip-term")
                     \/ closest(dom[i].path, "tooltip-popover") )
                   => /\ \E j \in 1..Len(dom') :
                            /\ dom'[j] = dom[i]
                            /\ TextOf(SubSeq(dom', 1, j - 1))
                                 = TextOf(SubSeq(dom, 1, i - 1))
                      /\ root = <<i, i>> => dom' = dom]_vars

C16_Witness ==
    /\ Len(dom) = 2
    /\ dom[1] = TextNode(<<"s">>, << El("DIV", ""), TermElement("decltype") >>)
    /\ dom[2] = TextNode(<<"s">>, << El("DIV", ""), TermElement("std-forward"),
                                     El("B", "") >>)

IsTerm(node, parentPath) ==
    /\ Len(node.path) = Len(parentPath) + 1
    /\ SubSeq(node.path, 1, Len(parentPath)) = parentPath
    /\ node.path[Len(node.path)].class = "tooltip-term"

\* C17: processTextNode keeps the text: the nodes that replace a text node,
\* read in order, spell the text of that node; the markers among them are,
\* in order, the matches of findMatches on that text, each holding exactly
\* the characters [start, end) of the text at that offset, and everything
\* between them is plain text of the same parent.
C17_TextPreserved ==
    [][\A i \in 1..Len(dom) :
          (decorate(i, i) /\ shouldProcessNode(dom[i]))
          => LET n == Len(dom') - Len(dom) + 1
                 new == SubSeq(dom', i, i + n - 1)
                 ms == findMatches(definitions, dom[i].text)
                 terms == { j \in 1..n : IsTerm(new[j], dom[i].path) }
                 Offset(j) == Len(TextOf(SubSeq(new, 1, j - 1)))
             IN  /\ n >= 1
                 /\ SubSeq(dom', 1, i - 1) = SubSeq(dom, 1, i - 1)
                 /\ SubSeq(dom', i + n, Len(dom')) = SubSeq(dom, i + 1, Len(dom))
                 /\ TextOf(new) = dom[i].text
                 /\ Cardinality(terms) = Len(ms)
                 /\ \A j \in 1..n :
                       IF j \in terms
                       THEN LET k == Cardinality({ x \in terms : x <= j }) IN
                            /\ Offset(j) = ms[k].start
                            /\ new[j].text = Slice(dom[i].text, ms[k].start, ms[k].end)
                            /\ new[j].path[Len(new[j].path)].tooltipId = ms[k].definitionId
                       ELSE new[j].path = dom[i].path /\ new[j].text # <<>>]_vars

C17_Witness ==
    /\ Len(dom) = 3
    /\ dom[1].text = <<" ">>
    /\ dom[1].path = << El("DIV", "") >>
    /\ dom[2].text = <<"s">>
    /\ dom[2].path = << El("DIV", ""), TermElement("decltype") >>
    /\ dom[3].text = <<":">>
    /\ dom[3].path = << El("DIV", "") >>

\* ------------------------------------------------------------ C18 .. C20
\* The states of the popover: it shows marker t with no hide pending; it
\* shows t with a hide pending; it is hidden.
Shown(t) ==
    /\ activeTerm = t
    /\ popover.ariaHidden = "false"
    /\ popover.visibility = "visible"
    /\ popover.visible

Visible(t) == Shown(t) /\ timers = {}
PendingHide(t) == Shown(t) /\ timers # {}

\* C18: a pointer-enter or focus on a marker cancels the pending hide: after
\* it no hide timer is pending, so the hide scheduled before never fires,
\* and the popover shows the marker; at any time the only timer that can be
\* pending is the one scheduled last.
C18_EnterCancelsHide ==
    /\ [](timers \subseteq {hideTimeout})
    /\ [][\A e \in Elements \cup Focusable :
             ((MouseOver(e) \/ FocusIn(e)) /\ closestTerm(e) # Null)
             => /\ timers' = {}
                /\ Visible(closestTerm(e))'
                /\ popover'.title = definitionMap[TooltipId(closestTerm(e))].title]_vars

C18_Witness ==
    /\ tipOut.event = "mouseover"
    /\ tipOut.did = "show"
    /\ tipOut.cancelled
    /\ Visible("t1")
    /\ focus = "t1"

\* C19: while the popover shows marker t with no hide pending, a
\* pointer-leave or a blur of t schedules the hide (the popover still shows
\* t, and exactly the timer just set is pending), except a pointer-leave to
\* an element inside t, which changes nothing and schedules nothing.
C19_LeaveSchedulesHide ==
    [][\A t \in Terms :
          /\ \A to \in Elements \cup {Null} :
                (MouseOut(to) /\ Visible(t) /\ closestTerm(pointer) = t)
                => IF to # Null /\ closestTerm(to) = t
                   THEN UNCHANGED tipState
                   ELSE /\ PendingHide(t)'
                        /\ hideTimeout' \in TimerIds
                        /\ timers' = {hideTimeout'}
                        /\ popover' = popover
          /\ \A to \in Focusable \cup {Null} :
                (FocusOut(to) /\ Visible(t) /\ closestTerm(focus) = t)
                => /\ PendingHide(t)'
                   /\ hideTimeout' \in TimerIds
                   /\ timers' = {hideTimeout'}
                   /\ popover' = popover]_vars

C19_Witness ==
    /\ tipOut.event = "mouseout"
    /\ tipOut.target = "t1"
    /\ tipOut.relatedTarget = "t1-child"
    /\ tipOut.did = "none"
    /\ overPending
    /\ Visible("t1")
    /\ hideTimeout # 0

\* C20, as stated: the hide of the popover that shows marker t is started
\* only by a pointer-leave or a blur of t itself; a pointer-leave or a blur
\* of another marker changes nothing of the popover and schedules no hide.
C20_OnlyOwnLeaveHides ==
    [][\A t \in Terms :
          Visible(t)
          => /\ timers' # {}
                => \/ \E to \in Elements \cup {Null} :
                         MouseOut(to) /\ closestTerm(pointer) = t
                   \/ \E to \in Focusable \cup {Null} :
                         FocusOut(to) /\ closestTerm(focus) = t
             /\ \A to \in Elements \cup {Null} :
                   (MouseOut(to) /\ closestTerm(pointer) \notin {t, Null})
                   => UNCHANGED tipState
             /\ \A to \in Focusable \cup {Null} :
                   (FocusOut(to) /\ closestTerm(focus) \notin {t, Null})
                   => UNCHANGED tipState]_vars

\* What does hold of C20: the popover is hidden by a hide timer alone, and
\* a hide is scheduled by the pointer-leave or blur of a marker alone,
\* whichever marker the popover shows.
C20_LeaveOfAnyMarkerHides ==
    [][/\ (popover.visible /\ ~popover'.visible)
             => \E id \in timers : HideTimer(id)
       /\ (timers' \ timers # {})
             => \/ \E to \in Elements \cup {Null} :
                      MouseOut(to) /\ closestTerm(pointer) # Null
                \/ \E to \in Focusable \cup {Null} :
                      FocusOut(to) /\ closestTerm(focus) # Null]_vars

C20_Witness ==
    /\ tipOut.event = "mouseout"
    /\ tipOut.target = "t2"
    /\ tipOut.did = "scheduleHide"
    /\ PendingHide("t1")
    /\ focus = "t1"
    /\ pointer = Null

\* ------------------------------------------------------------ C21 .. C24
\* The popover is hidden.
Hidden ==
    /\ activeTerm = Null
    /\ popover.ariaHidden = "true"
    /\ popover.visibility = "hidden"
    /\ ~popover.visible

\* C21: from a state in which the popover shows marker t with a hide
\* pending, the popover becomes hidden (aria-hidden true, not visible, no
\* active term) unless a marker is entered or focused first; and while the
\* hide is pending, the timer this.hideTimeout names is really pending.
C21_PendingHideCompletes ==
    /\ [](\A t \in Terms : PendingHide(t) => timers = {hideTimeout})
    /\ \A t \in Terms : PendingHide(t) ~> (Hidden \/ tipOut.did = "show")

C21_Witness ==
    /\ Hidden
    /\ tipOut.event = "timeout"
    /\ tipOut.did = "hide"
    /\ hideTimeout # 0
    /\ pointer = "body"

\* C22: when the popover shows marker t, with or without a hide pending,
\* and another marker t2 is entered or focused, the next state shows t2: the
\* content is that of t2's definition, the position is computed from t2's
\* rectangle, and no hide is pending. The popover becomes hidden by the hide
\* timer alone, so it is not hidden on the way from t to t2.
C22_DirectSwitch ==
    [][\A t \in Terms :
          Shown(t)
          => /\ \A e \in Elements \cup Focusable :
                   ((MouseOver(e) \/ FocusIn(e)) /\ closestTerm(e) \notin {Null, t})
                   => /\ Visible(closestTerm(e))'
                      /\ popover'.title = definitionMap[TooltipId(closestTerm(e))].title
                      /\ popover'.body = definitionMap[TooltipId(closestTerm(e))].body
                      /\ popover'.place = positionTooltip(closestTerm(e))
             /\ ~Shown(t)'
                   => \/ \E id \in timers : HideTimer(id) /\ Hidden'
                      \/ \E t2 \in Terms \ {t} : Shown(t2)']_vars

C22_Witness ==
    /\ tipOut.event = "mouseover"
    /\ tipOut.target = "t2"
    /\ tipOut.was = "t1"
    /\ tipOut.cancelled
    /\ Visible("t2")
    /\ popover.title = "decltype"
    /\ popover.body = "Compile-time type deduction operator"
    /\ popover.place = <<78, 108>>

\* The popover has been positioned: its left edge in px, and the popover's
\* and the viewport's widths in half pixels.
Positioned == popover.place # <<>>
Left == popover.place[2]
TipWidth == layout.tooltipRect.width
Fits == TipWidth <= layout.innerWidth - 4 * Padding

\* C23, as stated: for every marker rectangle, popover width and viewport
\* width, left >= 12 and left + popoverWidth <= viewportWidth - 12.
C23_ClampedBothSides ==
    Positioned
    => /\ Left >= Padding
       /\ 2 * Left + TipWidth <= layout.innerWidth - 2 * Padding

\* C23, amended: the right edge keeps the padding, up to the half pixel
\* Math.round can add, and exactly when the popover's and the viewport's
\* widths are whole pixels; the left edge keeps the padding when the popover
\* fits between the two paddings, and otherwise left is the rounded
\* viewportWidth - popoverWidth - 12, which is at most 12.
C23_ClampedWhenFits ==
    Positioned
    => /\ 2 * Left + TipWidth <= layout.innerWidth - 2 * Padding + 1
       /\ (TipWidth % 2 = 0 /\ layout.innerWidth % 2 = 0)
             => 2 * Left + TipWidth <= layout.innerWidth - 2 * Padding
       /\ Fits => Left >= Padding
       /\ ~Fits => /\ Left <= Padding
                   /\ Left = MathRound(Q(layout.innerWidth) - Q(TipWidth) - Px(Padding))

C23_Witness ==
    /\ Positioned
    /\ tipOut.did = "show"
    /\ Fits
    /\ layout.rect.t1.left > layout.innerWidth - TipWidth
    /\ 2 * Left + TipWidth = layout.innerWidth - 2 * Padding
    /\ Left > Padding

\* The definitions registered with the id of marker t, in their order.
Registered(t) ==
    SelectSeq(definitions, LAMBDA def : def.id = TooltipId(t))

\* C24, as stated: when several definitions share an id, the popover of a
\* marker with that id is populated from the first-registered one.
C24_FirstRegisteredShown ==
    \A t \in Terms :
       Shown(t) => /\ popover.title = Head(Registered(t)).title
                   /\ popover.body = Head(Registered(t)).body

\* C24, amended: it is populated from the last-registered one; the earlier
\* ones are shadowed.
C24_LastRegisteredShown ==
    \A t \in Terms :
       Shown(t) => /\ popover.title = Registered(t)[Len(Registered(t))].title
                   /\ popover.body = Registered(t)[Len(Registered(t))].body

C24_Witness ==
    /\ Shown("t2")
    /\ Len(Registered("t2")) = 2
    /\ popover.body = definitions[3].body
    /\ popover.body # definitions[1].body
    /\ tipOut.did = "show"

\* ------------------------------------------------------------ C25 .. C30
\* Map m2 is map m1 without its entry for k.
Without(m1, m2, k) ==
    /\ k \notin DOMAIN m2
    /\ \A j \in TabIds \ {k} :
          /\ j \in DOMAIN m2 <=> j \in DOMAIN m1
          /\ j \in DOMAIN m1 => m2[j] = m1[j]

\* C25: clearCache(k) removes the cache entry and the retry counter of k
\* and leaves the cache entries and retry counters of the other keys, the
\* in-flight map and the fetches under way as they are; clearCache() leaves
\* no cache entry and no retry counter, and the in-flight map as it is.
C25_ClearCacheFrame ==
    [][/\ \A k \in TabIds :
             clearCache(k)
             => /\ Without(cache, cache', k)
                /\ Without(retryCount, retryCount', k)
                /\ UNCHANGED <<loadingPromises, activation, net>>
       /\ clearCache(Undefined)
             => /\ DOMAIN cache' = {}
                /\ DOMAIN retryCount' = {}
                /\ UNCHANGED <<loadingPromises, activation, net>>]_vars

C25_Witness ==
    /\ out.op = "clearCache"
    /\ out.tabId = "vector"
    /\ "vector" \in loadingPromises
    /\ activation["vector"].pc = "wait"
    /\ "vector" \notin DOMAIN retryCount
    /\ "nosuch" \in DOMAIN cache
    /\ "nosuch" \in DOMAIN retryCount

\* The turn emits contentLoaded for key k.
EmitsLoaded(o, k) ==
    /\ o.op = "settle"
    /\ \E i \in 1..Len(o.events) :
          o.events[i].event = "contentLoaded" /\ o.events[i].tabId = k

\* C26: the contentLoaded event of a key is emitted in the turn in which
\* the key's fetch completes (its last network request has answered), one
\* event per completed fetch and none at any other time, wherever the key
\* stands in the order of the requests: the events follow the order of the
\* completions.
C26_CompletionOrder ==
    [][\A k \in TabIds :
          /\ (k \in loadingPromises /\ k \notin loadingPromises')
                => /\ \E resp \in Responses : NetRespond(k, resp)
                   /\ EmitsLoaded(out', k)
                   /\ Len(out'.events) = 1
          /\ EmitsLoaded(out', k)
                => (k \in loadingPromises /\ k \notin loadingPromises')]_vars

\* nosuch, requested after vector, completes while vector is pending.
C26_Witness ==
    /\ EmitsLoaded(out, "nosuch")
    /\ requestOrder = <<"vector", "nosuch">>
    /\ "vector" \in loadingPromises
    /\ "nosuch" \notin loadingPromises

\* The turn emits preloadComplete.
EmitsPreloadComplete(o) ==
    /\ o.op = "preloadSettled"
    /\ \E i \in 1..Len(o.events) : o.events[i].event = "preloadComplete"

\* C27: preloadComplete is emitted once per preloadContent(array): only by
\* a preload in progress whose map() is over and whose loads have all
\* settled, and that step ends the preload. Every load map() calls for that
\* does not return at once from the cache is pending and awaited; a key
\* stops being awaited only in the turn its load settles, with the content
\* or with the fallback, and that turn leaves the other keys awaited; every
\* awaited key has a pending load. preloadContent with an argument that is
\* no array changes nothing and emits nothing.
C27_PreloadComplete ==
    /\ [](preload.awaiting \subseteq loadingPromises)
    /\ [][ /\ EmitsPreloadComplete(out')
                => /\ preload.active
                   /\ preload.todo = <<>>
                   /\ preload.awaiting = {}
                   /\ ~preload'.active
                   /\ Len(out'.events) = 1
           /\ (preload.active /\ ~preload'.active) => EmitsPreloadComplete(out')
           /\ (~preload.active /\ preload'.active)
                => \E arg \in PreloadArgs : arg.isArray /\ preloadContent(arg)
           /\ \A arg \in PreloadArgs :
                 (preloadContent(arg) /\ ~arg.isArray)
                 => /\ UNCHANGED <<cache, loadingPromises, retryCount, activation,
                                   net, preload>>
                    /\ out' = Nothing
           /\ \A k \in TabIds :
                 /\ (PreloadMap /\ Head(preload.todo) = k /\ ~Fresh(k))
                       => /\ k \in loadingPromises'
                          /\ k \in preload'.awaiting
                 /\ (k \in preload.awaiting /\ k \notin preload'.awaiting)
                       => /\ out'.op = "settle"
                          /\ out'.tabId = k
                          /\ preload'.awaiting = preload.awaiting \ {k}
                 /\ (out'.op = "settle" /\ out'.tabId = k)
                       => k \notin preload'.awaiting]_vars

\* preloadComplete after a preload of two keys, one of which has failed and
\* got the fallback.
C27_Witness ==
    /\ EmitsPreloadComplete(out)
    /\ ~preload.active
    /\ DOMAIN cache = TabIds
    /\ IsFallback(cache["nosuch"].content)
    /\ ~IsFallback(cache["vector"].content)
    /\ cache["nosuch"].timestamp = now
    /\ cache["vector"].timestamp = 0
    /\ now > 0

\* The callbacks registered for an event, in the order of registration.
Listeners(ev, event) == IF event \in DOMAIN ev THEN ev[event] ELSE <<>>

Range(q) == { q[i] : i \in 1..Len(q) }

C29_EveryLoadResolves ==
    \A k \in TabIds : (k \in loadingPromises) ~> (k \notin loadingPromises)

\* clearCache has just been called on k while its load was pending.
ClearHit(k) ==
    /\ out.op = "clearCache"
    /\ out.tabId \in {k, Undefined}
    /\ k \in loadingPromises

\* The part of C29 that holds: a pending load settles unless clearCache is
\* called on its key again and again while it is pending.
C29_ResolvesUnlessCleared ==
    \A k \in TabIds :
       \/ []<>ClearHit(k)
       \/ (k \in loadingPromises) ~> (k \notin loadingPromises)

\* ------------------------------------------------------------ C31 .. C35
\* A failed request of k has just started the backoff wait.
StartsWait(k) == activation[k].pc = "fetch" /\ activation'[k].pc = "wait"

\* C31: the wait before the n-th retry of a load is RetryDelay * n, n being
\* the number of requests the load has issued so far; while the wait lasts
\* no request of the key is outstanding and none is issued, and the next
\* one is issued by the timer, not before it is due.
C31_Backoff ==
    /\ [](\A k \in TabIds : activation[k].pc = "wait" => net[k] = 0)
    /\ [][\A k \in TabIds :
             /\ StartsWait(k)
                   => activation'[k].due - now = RetryDelay * attempts[k]
             /\ (activation[k].pc = "wait" /\ net'[k] # net[k])
                   => /\ RetryTimer(k)
                      /\ now >= activation[k].due]_vars

\* The part of C31 that holds: the same, for the loads no clearCache has
\* hit.
C31_BackoffUnlessCleared ==
    /\ [](\A k \in TabIds : activation[k].pc = "wait" => net[k] = 0)
    /\ [][\A k \in TabIds :
             /\ (StartsWait(k) /\ ~cleared[k])
                   => activation'[k].due - now = RetryDelay * attempts[k]
             /\ (activation[k].pc = "wait" /\ net'[k] # net[k])
                   => /\ RetryTimer(k)
                      /\ now >= activation[k].due]_vars

\* C32: whatever loadContent and clearCache calls are interleaved, a load
\* issues at most RetryAttempts + 1 network requests.
C32_CeilingUnderClearCache ==
    \A k \in TabIds : attempts[k] <= RetryAttempts + 1

\* C33: a key with no load pending has no entry in loadingPromises and none
\* in retryCount, so every load starts with 0 retries used; and no retry
\* counter ever exceeds RetryAttempts.
C33_Quiescence ==
    /\ [](\A k \in TabIds :
            activation[k].pc = "idle"
            => k \notin loadingPromises /\ k \notin DOMAIN retryCount)
    /\ [](\A k \in TabIds : (k \in loadingPromises) = (activation[k].pc # "idle"))
    /\ [](\A k \in DOMAIN retryCount : retryCount[k] <= RetryAttempts)
    /\ [][\A k \in TabIds :
             (activation[k].pc = "idle" /\ activation'[k].pc # "idle")
             => /\ activation'[k].retries = 0
                /\ k \notin DOMAIN retryCount']_vars

\* A load that used every retry has settled and left no counter behind,
\* while the other key's load has used its last retry.
C33_Witness ==
    /\ out.op = "settle"
    /\ out.attempts = RetryAttempts + 1
    /\ out.tabId \notin DOMAIN retryCount
    /\ activation[out.tabId].pc = "idle"
    /\ \E k \in DOMAIN retryCount : retryCount[k] = RetryAttempts

\* C34: no turn emits contentError and no load is rejected; a failed
\* request that finds the retries used up settles the load in the same
\* turn with one contentLoaded event that carries the fallback document.
C34_FallbackIsLoaded ==
    /\ [](out.op = "settle"
            => /\ out.status = "fulfilled"
               /\ \A i \in 1..Len(out.events) :
                     out.events[i].event = "contentLoaded")
    /\ [][\A k \in TabIds, resp \in Responses :
             (NetRespond(k, resp) /\ Failure(resp)
                /\ activation[k].retries >= RetryAttempts)
             => /\ out'.op = "settle"
                /\ out'.events =
                      << [event |-> "contentLoaded", tabId |-> k,
                          content |-> FallbackContent(k, FetchResult(resp).message)] >>]_vars

\* The fallback document of vector goes out with contentLoaded after an
\* empty body ended the last retry.
C34_Witness ==
    /\ out.op = "settle"
    /\ out.tabId = "vector"
    /\ out.events = << [event |-> "contentLoaded", tabId |-> "vector",
                        content |-> FallbackContent("vector", "Empty content received")] >>
    /\ ~out.cleared

\* The turn emits no event.
Silent(o) == o.op \in {"none", "clearCache"} \/ (o.op = "return" /\ DOMAIN o = {"op", "tabId", "returned"})

\* C35: a loadContent call served from a fresh cache entry returns the
\* entry and emits nothing, a call that finds a fetch of its key pending
\* is handed its promise and emits nothing, and a call that starts a fetch
\* emits nothing yet; the fetch ends in one turn, the continuation of the
\* call that started it, which emits exactly one contentLoaded, however
\* many calls were coalesced onto it; no other turn emits an event.
C35_OneEventPerFetch ==
    [][ /\ \A tabId \in TabIds, useCache \in BOOLEAN :
              LoadContentCall(tabId, useCache)
              => /\ Silent(out')
                 /\ (useCache /\ Fresh(tabId))
                       => out'.op = "return" /\ UNCHANGED <<loadingPromises, net, joined>>
                 /\ (~(useCache /\ Fresh(tabId)) /\ tabId \in loadingPromises)
                       => out'.op = "none" /\ joined'[tabId]
                          /\ UNCHANGED <<loadingPromises, net>>
        /\ \A k \in TabIds :
              (k \in loadingPromises /\ k \notin loadingPromises')
              => /\ out'.op = "settle"
                 /\ out'.tabId = k
                 /\ out'.joined = joined[k]
                 /\ Len(out'.events) = 1
                 /\ out'.events[1].event = "contentLoaded"
                 /\ out'.events[1].content = out'.returned
        /\ (loadingPromises \subseteq loadingPromises') => Silent(out') ]_vars

\* A fetch that two calls shared has ended with its one event.
C35_Witness ==
    /\ out.op = "settle"
    /\ out.joined
    /\ Len(out.events) = 1
    /\ out.events[1].event = "contentLoaded"
    /\ out.tabId \in DOMAIN cache
    /\ out.tabId \notin loadingPromises

\* ------------------------------------------------------------------ C36
\* C36: in every reachable state activeTerm is a marker exactly when the
\* popover is shown (aria-hidden false, visibility visible, class visible),
\* it is null exactly when the popover is hidden, and at most one hide
\* timer is pending, the one this.hideTimeout names.
C36_PopoverConsistent ==
    /\ (activeTerm # Null) <=> (popover.ariaHidden = "false" /\ popover.visibility = "visible")
    /\ activeTerm # Null => popover.visible
    /\ activeTerm = Null => Hidden
    /\ Cardinality(timers) <= 1
    /\ timers \subseteq {hideTimeout}

\* The popover shows a marker again while the hide timer of a second leave
\* is pending: an earlier timer has been replaced, not added to.
C36_Witness ==
    /\ activeTerm # Null
    /\ popover.ariaHidden = "false"
    /\ Cardinality(timers) = 1
    /\ hideTimeout = 2

\* ------------------------------------------------------------------ C40
\* The callbacks an emit has invoked, in the order of their invocation.
Invoked(o) == [i \in 1..Len(o.invoked) |-> o.invoked[i].callback]

Decorated(d) == decorateNodes(d, 1, 1, Len(d))

\* The markers of a document: its text nodes that lie in a marker, each
\* with the text that stands before it.
Markers(d) ==
    { [before |-> TextOf(SubSeq(d, 1, i - 1)), node |-> d[i]] :
        i \in { j \in 1..Len(d) : closest(d[j].path, "tooltip-term") } }

InsideWord(t, p) ==
    p > 0 /\ p < Len(t) /\ t[p] \in WordChars /\ t[p + 1] \in WordChars

CutsWord(node) ==
    \E i \in 1..Len(findMatches(definitions, node.text)) :
       LET match == findMatches(definitions, node.text)[i] IN
       InsideWord(node.text, match.start) \/ InsideWord(node.text, match.end)

C37_LastRequestWins ==
    (switches = <<>> /\ latest.state = "shown")
    => /\ container = ContentView(DocumentOf(latest.tabId))
       /\ activeButton = latest.tabId
       /\ currentTab = latest.tabId

\* The part of C37 that holds: the highlighted button is always the one of
\* the tab requested last, and a completing call whose load succeeded shows
\* its own content and makes its own tab the current one.
C37_ButtonFollowsRequest ==
    /\ [](activeButton = updateTabStates(latest.tabId))
    /\ [][appOut'.result = "shown"
             => /\ container' = ContentView(DocumentOf(appOut'.tabId))
                /\ currentTab' = appOut'.tabId]_vars

\* C38: a switchTab whose load fails (a tab id the configuration does not
\* list, which fails in the call itself without a fetch; a fetch that is
\* rejected or answers with a status that is not ok) leaves currentTab and
\* contentCache as they are, shows the error view and does not throw. The
\* cache holds only documents of responses that were ok, so a switchTab of
\* a tab whose loads have failed so far starts a fetch again.
C38_FailedSwitch ==
    /\ [](\A tabId \in DOMAIN contentCache :
            tabId \in TabsConfig /\ contentCache[tabId] = DocumentOf(tabId))
    /\ [][ /\ \A tabId \in AppTabIds \ TabsConfig :
                 SwitchTabCall(tabId)
                 => /\ UNCHANGED <<currentTab, contentCache, switches>>
                    /\ container' = ErrorView
                    /\ appOut'.result = "error"
                    /\ ~appOut'.fetch
                    /\ ~appOut'.threw
           /\ \A i \in 1..Len(switches) : \A resp \in AppResponses(switches[i]) :
                 (FetchCompletes(i, resp) /\ (resp.rejected \/ ~resp.ok))
                 => /\ UNCHANGED <<currentTab, contentCache>>
                    /\ container' = ErrorView
                    /\ appOut'.result = "error"
                    /\ ~appOut'.threw
           /\ \A tabId \in TabsConfig :
                 (SwitchTabCall(tabId) /\ tabId \notin DOMAIN contentCache)
                 => /\ appOut'.fetch
                    /\ switches' = Append(switches, tabId) ]_vars

\* The fetch of vector has failed for the second time while string is the
\* current tab and in the cache: the error view is shown, and vector is
\* still not cached.
C38_Witness ==
    /\ appOut = [op |-> "resume", tabId |-> "vector", result |-> "error",
                 threw |-> FALSE, fetch |-> FALSE]
    /\ container = ErrorView
    /\ currentTab = "string"
    /\ DOMAIN contentCache = {"string"}
    /\ latest = [tabId |-> "vector", state |-> "error"]
    /\ switches = <<>>

====
